---- MODULE Spec2Model ----
(***************************************************************************)
(* byte-draw: the canvas store (CanvasProvider, canvasReducer) and the     *)
(* pointer-driven interaction controller of PixiCanvas.                    *)
(*                                                                         *)
(* `state` is the value held by useReducer(canvasReducer).  The gesture    *)
(* records are the useRef cells of PixiCanvas.  Every action is one event  *)
(* handler run to completion, followed by the re-render it causes: the     *)
(* effect that copies state into stateRef and the effect that leaves       *)
(* text-edit mode when the edited text is no longer selected.              *)
(***************************************************************************)
EXTENDS Integers, Sequences, FiniteSets, TLC

(* ----------------------------- bounds -------------------------------- *)
\* createId() is crypto.randomUUID(): modelled as a counter of fresh ids.
MaxId == 5
\* add* and paste are offered while the top level holds fewer elements than this
MaxElements == 2
\* recording operations are offered while history is shorter than this
MaxHistory == 2
MaxPan == 6000

(* ------------------------ program constants -------------------------- *)
MIN_ELEMENT_SIZE == 0
SNAP_ANGLE == 15
SnapThresholdPixels == 5
PasteStep == 20
virtualCanvasSize == 4000
\* stands for the Infinity that seeds the min/max folds; above every coordinate
Infinity == 1000000

(* --------------------------- input sets ------------------------------ *)
\* the pointers of the input device: a mouse is one pointer
MousePointers == { "mouse" }
\* a touch screen delivers one pointer per finger
TouchPointers == { "finger1", "finger2" }
\* the world-space point of the empty canvas where the background is pressed
BackgroundPoints == { [x |-> 1500, y |-> 1500] }
\* resize handles that are dragged
Directions == { "se" }
\* where a pointermove finds the pointer: its travel since the press and its
\* angle about the rotation centre in degrees (toDeg(Math.atan2(..)) of the
\* position); the press on the rotate handle is at angle 0
StartAngles == { 0 }
PointerSamples == { [delta |-> [x |-> 0, y |-> 0], angle |-> 0],
                    [delta |-> [x |-> 400, y |-> 490], angle |-> 20] }

NoId == 0
Null == [null |-> TRUE]
Undefined == << [undefined |-> TRUE] >>

(* --------------------------- sequences ------------------------------- *)
Includes(seq, v) == \E i \in 1..Len(seq) : seq[i] = v

Filter(seq, Keep(_)) == SelectSeq(seq, Keep)

Map(seq, F(_)) == [i \in 1..Len(seq) |-> F(seq[i])]

RECURSIVE UniqueFrom(_, _)
UniqueFrom(seq, acc) ==
  IF seq = <<>> THEN acc
  ELSE UniqueFrom(Tail(seq), IF Includes(acc, Head(seq)) THEN acc ELSE Append(acc, Head(seq)))

\* Array.from(new Set(seq)): first occurrences, in insertion order
ArrayFromSet(seq) == UniqueFrom(seq, <<>>)

Min2(a, b) == IF a < b THEN a ELSE b
Max2(a, b) == IF a > b THEN a ELSE b
Abs(a) == IF a < 0 THEN -a ELSE a

\* deepCopy / structuredClone: values have no identity here, a copy is the value
deepCopy(value) == value
cloneElements(els) == els
cloneElement(el) == cloneElements(<<el>>)[1]

(* ----------------------------- state --------------------------------- *)
VARIABLES
  state,               \* CanvasState held by useReducer
  pressed,             \* the pointers that are down (between pointerdown and pointerup)
  nextId,              \* ids handed out so far by createId
  clipboardRef,        \* CanvasProvider clipboardRef.current
  pasteCountRef,       \* CanvasProvider pasteCountRef.current
  rotateRef,           \* PixiCanvas gesture refs
  dragRef,
  resizeRef,
  panRef,
  isSelectedRef,
  selectionStartRef,
  selectionLastPosRef,
  selectionBoxRef,     \* TRUE while the marquee Graphics exists
  modifierKeysRef,     \* shift/meta/ctrl seen on the last pointermove
  currentGuidesRef,    \* snap guides currently drawn
  viewport             \* the scroll container and the scroll handler of the last render

vars == << state, pressed, nextId, clipboardRef, pasteCountRef, rotateRef, dragRef, resizeRef,
           panRef, isSelectedRef, selectionStartRef, selectionLastPosRef,
           selectionBoxRef, modifierKeysRef, currentGuidesRef, viewport >>

refs == << rotateRef, dragRef, resizeRef, panRef, isSelectedRef, selectionStartRef,
           selectionLastPosRef, selectionBoxRef, modifierKeysRef, currentGuidesRef,
           viewport >>

\* state.zoom is held in hundredths: ZoomUnit stands for the zoom 1
ZoomUnit == 100

artboard == [x |-> 1600, y |-> 1700, width |-> 800, height |-> 600, visible |-> TRUE]

baseState ==
  [ elements        |-> <<>>,
    selectedIds     |-> <<>>,
    zoom            |-> ZoomUnit,
    pan             |-> [x |-> 0, y |-> 0],
    interactionMode |-> "select",
    history         |-> <<>>,
    redoStack       |-> <<>>,
    artboard        |-> artboard,
    editingTextId   |-> NoId ]

\* stateRef.current: the effect `stateRef.current = state` has run after the
\* render that follows every handler
stateRef == state

(* ---------------------------- reducer -------------------------------- *)
\* a faulty SET_ELEMENTS that ignores recordHistory and always records
SetElementsAlwaysRecord(s, updated, recordHistory, historySnapshot) ==
  [ s EXCEPT !.elements = updated,
             !.history = Append(s.history,
                                IF historySnapshot = Undefined THEN deepCopy(s.elements)
                                ELSE historySnapshot),
             !.redoStack = <<>> ]

\* a faulty SET_ELEMENTS that records the tree after the mutation
SetElementsRecordsUpdated(s, updated, recordHistory, historySnapshot) ==
  [ s EXCEPT !.elements = updated,
             !.history = IF recordHistory
                         THEN Append(s.history,
                                     IF historySnapshot = Undefined THEN deepCopy(updated)
                                     ELSE historySnapshot)
                         ELSE s.history,
             !.redoStack = IF recordHistory THEN <<>> ELSE s.redoStack ]

\* a faulty SET_ELEMENTS that records but keeps the redo stack
SetElementsKeepsRedo(s, updated, recordHistory, historySnapshot) ==
  [ s EXCEPT !.elements = updated,
             !.history = IF recordHistory
                         THEN Append(s.history,
                                     IF historySnapshot = Undefined THEN deepCopy(s.elements)
                                     ELSE historySnapshot)
                         ELSE s.history ]

\* case "SET_ELEMENTS": `updated` is updater(deepCopy(s.elements))
SetElements(s, updated, recordHistory, historySnapshot) ==
  LET shouldRecord == recordHistory IN
  [ s EXCEPT !.elements = updated,
             !.history = IF shouldRecord
                         THEN Append(s.history,
                                     IF historySnapshot = Undefined THEN deepCopy(s.elements)
                                     ELSE historySnapshot)
                         ELSE s.history,
             !.redoStack = IF shouldRecord THEN <<>> ELSE s.redoStack ]

\* case "SET_SELECTION"
SetSelection(s, payload, additive) ==
  [ s EXCEPT !.selectedIds = IF additive THEN ArrayFromSet(s.selectedIds \o payload)
                             ELSE payload ]

\* case "CLEAR_SELECTION"
ClearSelection(s) == [ s EXCEPT !.selectedIds = <<>> ]

\* case "SET_MODE"
SetMode(s, mode) == [ s EXCEPT !.interactionMode = mode ]

\* a faulty UNDO that restores the oldest history entry instead of the latest
UndoOldest(s) ==
  IF Len(s.history) = 0 THEN s
  ELSE [ s EXCEPT !.elements = Head(s.history),
                  !.history = Tail(s.history),
                  !.redoStack = <<deepCopy(s.elements)>> \o s.redoStack,
                  !.selectedIds = <<>> ]

\* case "UNDO"
Undo(s) ==
  IF Len(s.history) = 0 THEN s
  ELSE LET previous == s.history[Len(s.history)]
           nextHistory == SubSeq(s.history, 1, Len(s.history) - 1)
       IN [ s EXCEPT !.elements = previous,
                     !.history = nextHistory,
                     !.redoStack = <<deepCopy(s.elements)>> \o s.redoStack,
                     !.selectedIds = <<>> ]

\* a faulty REDO that takes the entry at the back of the redo stack
RedoFromBack(s) ==
  IF Len(s.redoStack) = 0 THEN s
  ELSE [ s EXCEPT !.elements = s.redoStack[Len(s.redoStack)],
                  !.history = Append(s.history, deepCopy(s.elements)),
                  !.redoStack = SubSeq(s.redoStack, 1, Len(s.redoStack) - 1),
                  !.selectedIds = <<>> ]

\* case "REDO"
Redo(s) ==
  IF Len(s.redoStack) = 0 THEN s
  ELSE LET next == Head(s.redoStack)
           rest == Tail(s.redoStack)
       IN [ s EXCEPT !.elements = next,
                     !.history = Append(s.history, deepCopy(s.elements)),
                     !.redoStack = rest,
                     !.selectedIds = <<>> ]

\* a faulty STOP_EDITING_TEXT that leaves the text in edit mode
StopEditingTextKeeps(s) == s

\* case "START_EDITING_TEXT" / "STOP_EDITING_TEXT"
StartEditingText(s, id) == [ s EXCEPT !.editingTextId = id ]
StopEditingText(s) == [ s EXCEPT !.editingTextId = NoId ]

\* a faulty mutateElements that drops the caller's historySnapshot
mutateElementsDropsSnapshot(s, updated, recordHistory, historySnapshot) ==
  SetElements(s, updated, recordHistory, Undefined)

\* mutateElements(updater, options): recordHistory defaults to true
mutateElements(s, updated, recordHistory, historySnapshot) ==
  SetElements(s, updated, recordHistory, historySnapshot)

(* --------------------------- re-render ------------------------------- *)
\* a faulty Effect 9.5 that never leaves text-edit mode
SelectionSyncEffectIdle(s) == s

\* Effect 9.5 of PixiCanvas: leave text-edit mode when the edited text is not selected
SelectionSyncEffect(s) ==
  IF s.editingTextId # NoId /\ ~Includes(s.selectedIds, s.editingTextId)
  THEN StopEditingText(s) ELSE s

\* the store after the handler's dispatches and the effects of the re-render
Commit(s) == state' = SelectionSyncEffect(s)

(* --------------------------- provider -------------------------------- *)
\* getArtboardCenter: the artboard is visible, so its centre is used
getArtboardCenter ==
  [ x |-> state.artboard.x + state.artboard.width \div 2,
    y |-> state.artboard.y + state.artboard.height \div 2 ]

\* the element literal built by addShape / addText / addImage
NewElement(id, type, shape, width, height) ==
  LET center == getArtboardCenter IN
  [ id |-> id, type |-> type, shape |-> shape,
    x |-> center.x - width \div 2, y |-> center.y - height \div 2,
    width |-> width, height |-> height, rotation |-> 0, children |-> <<>> ]

CanRecord == Len(state.history) < MaxHistory
CanAdd == nextId < MaxId /\ Len(state.elements) < MaxElements /\ CanRecord

\* add*: append the element, select it, switch to select mode
AddedTo(s, element) ==
  LET s1 == mutateElements(s, Append(s.elements, element), TRUE, Undefined)
      s2 == SetSelection(s1, <<element.id>>, FALSE)
  IN SetMode(s2, "select")

AddElement(element) == Commit(AddedTo(state, element))

addShape(shape) ==
  /\ CanAdd
  /\ LET size == IF shape = "rectangle" THEN [width |-> 220, height |-> 140]
                 ELSE [width |-> 160, height |-> 160]
     IN AddElement(NewElement(nextId + 1, "shape", shape, size.width, size.height))
  /\ nextId' = nextId + 1
  /\ UNCHANGED << pressed, clipboardRef, pasteCountRef, refs >>

addText ==
  /\ CanAdd
  /\ AddElement(NewElement(nextId + 1, "text", "none", 260, 80))
  /\ nextId' = nextId + 1
  /\ UNCHANGED << pressed, clipboardRef, pasteCountRef, refs >>

\* addImage(src, size): called when the image picked in the left panel has loaded
addImage(size) ==
  /\ CanAdd
  /\ AddElement(NewElement(nextId + 1, "image", "none", size.width, size.height))
  /\ nextId' = nextId + 1
  /\ UNCHANGED << pressed, clipboardRef, pasteCountRef, refs >>

IsSelected(s, el) == Includes(s.selectedIds, el.id)

copy ==
  /\ LET selectedElements == Filter(state.elements, LAMBDA el : IsSelected(state, el))
     IN IF Len(selectedElements) > 0
        THEN clipboardRef' = deepCopy(selectedElements) /\ pasteCountRef' = 1
        ELSE UNCHANGED << clipboardRef, pasteCountRef >>
  /\ UNCHANGED << state, pressed, nextId, refs >>

\* the copies paste builds: fresh ids in clipboard order, offset 20 * pasteCount
PastedElements(clipboard, firstId, offset) ==
  [ i \in 1..Len(clipboard) |->
      [ clipboard[i] EXCEPT !.id = firstId + i - 1,
                            !.x = clipboard[i].x + offset,
                            !.y = clipboard[i].y + offset ] ]

\* a faulty paste that offsets every paste by one step
PasteIntoOneStep(s, clipboard, pasteCount, next) ==
  LET newElements == PastedElements(clipboard, next + 1, PasteStep)
      newIds == Map(newElements, LAMBDA el : el.id)
      s1 == mutateElements(s, s.elements \o newElements, TRUE, Undefined)
  IN [ store |-> SetSelection(s1, newIds, FALSE),
       next |-> next + Len(clipboard),
       pasteCount |-> pasteCount + 1 ]

\* paste of a non-empty clipboard into the store s: the store, the id counter
\* and the paste counter it leaves
PasteInto(s, clipboard, pasteCount, next) ==
  LET offset == PasteStep * pasteCount
      newElements == PastedElements(clipboard, next + 1, offset)
      newIds == Map(newElements, LAMBDA el : el.id)
      s1 == mutateElements(s, s.elements \o newElements, TRUE, Undefined)
  IN [ store |-> SetSelection(s1, newIds, FALSE),
       next |-> next + Len(clipboard),
       pasteCount |-> pasteCount + 1 ]

paste ==
  LET clipboard == clipboardRef IN
  IF Len(clipboard) = 0 THEN UNCHANGED vars
  ELSE
    /\ nextId + Len(clipboard) <= MaxId
    /\ Len(state.elements) + Len(clipboard) <= MaxElements
    /\ CanRecord
    /\ \E result \in { PasteInto(state, clipboard, pasteCountRef, nextId) } :
         /\ Commit(result.store)
         /\ nextId' = result.next
         /\ pasteCountRef' = result.pasteCount
    /\ UNCHANGED << pressed, clipboardRef, refs >>

deleteSelected ==
  IF Len(state.selectedIds) = 0 THEN UNCHANGED vars
  ELSE
    /\ CanRecord
    /\ LET s1 == mutateElements(state,
                                Filter(state.elements, LAMBDA el : ~IsSelected(state, el)),
                                TRUE, Undefined)
           s2 == ClearSelection(s1)
       IN Commit(s2)
    /\ UNCHANGED << pressed, nextId, clipboardRef, pasteCountRef, refs >>

\* a faulty bringToFront that puts the selection below the rest
bringToFrontBelow ==
  IF Len(state.selectedIds) = 0 THEN UNCHANGED vars
  ELSE
    /\ CanRecord
    /\ LET selected == Filter(state.elements, LAMBDA el : IsSelected(state, el))
           rest == Filter(state.elements, LAMBDA el : ~IsSelected(state, el))
       IN Commit(mutateElements(state, selected \o rest, TRUE, Undefined))
    /\ UNCHANGED << pressed, nextId, clipboardRef, pasteCountRef, refs >>

bringToFront ==
  IF Len(state.selectedIds) = 0 THEN UNCHANGED vars
  ELSE
    /\ CanRecord
    /\ LET selected == Filter(state.elements, LAMBDA el : IsSelected(state, el))
           rest == Filter(state.elements, LAMBDA el : ~IsSelected(state, el))
       IN Commit(mutateElements(state, rest \o selected, TRUE, Undefined))
    /\ UNCHANGED << pressed, nextId, clipboardRef, pasteCountRef, refs >>

sendToBack ==
  IF Len(state.selectedIds) = 0 THEN UNCHANGED vars
  ELSE
    /\ CanRecord
    /\ LET selected == Filter(state.elements, LAMBDA el : IsSelected(state, el))
           rest == Filter(state.elements, LAMBDA el : ~IsSelected(state, el))
       IN Commit(mutateElements(state, selected \o rest, TRUE, Undefined))
    /\ UNCHANGED << pressed, nextId, clipboardRef, pasteCountRef, refs >>

undo ==
  /\ Commit(Undo(state))
  /\ UNCHANGED << pressed, nextId, clipboardRef, pasteCountRef, refs >>

redo ==
  /\ Commit(Redo(state))
  /\ UNCHANGED << pressed, nextId, clipboardRef, pasteCountRef, refs >>

setInteractionMode(mode) ==
  /\ Commit(SetMode(state, mode))
  /\ UNCHANGED << pressed, nextId, clipboardRef, pasteCountRef, refs >>

\* the size of the scroll container on the page
clientWidth == 1200
clientHeight == 800

\* the largest scroll offsets: the content is the virtual canvas at the zoom
MaxScroll(zoom) ==
  [ x |-> Max2(0, (virtualCanvasSize * zoom) \div ZoomUnit - clientWidth),
    y |-> Max2(0, (virtualCanvasSize * zoom) \div ZoomUnit - clientHeight) ]

\* an assignment to scrollLeft and scrollTop: the browser keeps the offsets in
\* range and queues a scroll event when they change
ScrollTo(v, zoom, pos) ==
  LET max == MaxScroll(zoom)
      scroll == [ x |-> Max2(0, Min2(max.x, pos.x)), y |-> Max2(0, Min2(max.y, pos.y)) ]
  IN IF scroll = v.scroll THEN v
     ELSE [ v EXCEPT !.scroll = scroll, !.scrollPending = TRUE ]

\* everything but the store and the viewport
beyondView == << pressed, nextId, clipboardRef, pasteCountRef, rotateRef, dragRef, resizeRef, panRef,
                 isSelectedRef, selectionStartRef, selectionLastPosRef, selectionBoxRef,
                 modifierKeysRef, currentGuidesRef >>

(* ------------------------------ zoom --------------------------------- *)
ZoomMin == 25
ZoomMax == 300

\* case "SET_ZOOM"
SetZoom(s, zoom) == [ s EXCEPT !.zoom = zoom ]

\* a faulty clamp that has no upper limit
ClampZoomFromBelow(zoom) == Max2(ZoomMin, zoom)

\* Math.min(3, Math.max(0.25, zoom))
ClampZoom(zoom) == Min2(ZoomMax, Max2(ZoomMin, zoom))

\* setZoom: the clamped zoom is stored; the re-render resizes the content and
\* the browser keeps the scroll offsets within the new content
setZoom(zoom) ==
  \E next \in { ClampZoom(zoom) } :
    /\ Commit(SetZoom(state, next))
    /\ viewport' = ScrollTo(viewport, next, viewport.scroll)
    /\ UNCHANGED beyondView

\* handleGlobalWheelInternal with ctrl or meta held and the mouse over the
\* canvas: the zoom times 0.9 or 1.1, here rounded down to the hundredth
handleGlobalWheelInternal(deltaY) ==
  LET newZoom == IF deltaY > 0 THEN (stateRef.zoom * 9) \div 10 ELSE (stateRef.zoom * 11) \div 10
  IN setZoom(newZoom)

\* TopBar: the zoom-out and zoom-in buttons and the slider
zoomOutClick == setZoom(state.zoom - 10)
zoomInClick == setZoom(state.zoom + 10)
zoomSliderChange(value) == setZoom(value)

(* ---------------------------- artboard ------------------------------- *)
Has(payload, key) == key \in DOMAIN payload

\* { ...state.artboard, ...payload }
Spread(base, payload) ==
  [ key \in DOMAIN base \cup DOMAIN payload |->
      IF Has(payload, key) THEN payload[key] ELSE base[key] ]

\* a faulty UPDATE_ARTBOARD that keeps the stored position when the size changes
UpdateArtboardInPlace(s, payload) ==
  [ s EXCEPT !.artboard = Spread(s.artboard, payload) ]

\* case "UPDATE_ARTBOARD": sizes are even here, so that the halves are whole
UpdateArtboard(s, payload) ==
  LET newWidth == IF Has(payload, "width") THEN payload.width ELSE s.artboard.width
      newHeight == IF Has(payload, "height") THEN payload.height ELSE s.artboard.height
      newX == IF Has(payload, "width") THEN 2000 - newWidth \div 2
              ELSE IF Has(payload, "x") THEN payload.x ELSE s.artboard.x
      newY == IF Has(payload, "height") THEN 2000 - newHeight \div 2
              ELSE IF Has(payload, "y") THEN payload.y ELSE s.artboard.y
  IN [ s EXCEPT !.artboard = [ Spread(s.artboard, payload) EXCEPT !.x = newX, !.y = newY ] ]

\* Effect 10.5 of PixiCanvas after a render with a new artboard size: the zoom
\* that fits the artboard into 80% of the viewport, 1 at most, is set and the
\* scroll offsets that centre the canvas are left to a timeout
FitEffect(s, v) ==
  LET scaleX == (clientWidth * 80) \div s.artboard.width
      scaleY == (clientHeight * 80) \div s.artboard.height
      fitZoom == Min2(Min2(scaleX, scaleY), ZoomUnit)
      clampedZoom == Min2(ZoomMax, Max2(ZoomMin, fitZoom))
      content == (virtualCanvasSize * clampedZoom) \div ZoomUnit
      target == [ x |-> Max2(0, content \div 2 - clientWidth \div 2),
                  y |-> Max2(0, content \div 2 - clientHeight \div 2) ]
      s1 == SetZoom(s, ClampZoom(clampedZoom))
  IN [ store |-> s1,
       viewport |-> [ ScrollTo(v, s1.zoom, v.scroll) EXCEPT !.fitTimeout = target ] ]

\* the dispatch of UPDATE_ARTBOARD and the effects of the render that follows
DispatchUpdateArtboard(payload) ==
  \E s1 \in { UpdateArtboard(state, payload) } :
    /\ IF s1.artboard.width # state.artboard.width \/ s1.artboard.height # state.artboard.height
       THEN \E fit \in { FitEffect(s1, viewport) } :
              Commit(fit.store) /\ viewport' = fit.viewport
       ELSE Commit(s1) /\ UNCHANGED viewport
    /\ UNCHANGED beyondView

\* updateArtboard(changes)
updateArtboard(changes) == DispatchUpdateArtboard(changes)

\* updateArtboardWithFit(changes): the centred position is sent with the changes
updateArtboardWithFit(changes) ==
  LET newWidth == IF Has(changes, "width") THEN changes.width ELSE state.artboard.width
      newHeight == IF Has(changes, "height") THEN changes.height ELSE state.artboard.height
      newX == (virtualCanvasSize - newWidth) \div 2
      newY == (virtualCanvasSize - newHeight) \div 2
  IN DispatchUpdateArtboard(Spread(changes, [x |-> newX, y |-> newY]))

(* ----------------------------- scrolling ----------------------------- *)
\* case "PAN_BY"
PanBy(s, delta) == [ s EXCEPT !.pan = [x |-> s.pan.x + delta.x, y |-> s.pan.y + delta.y] ]

\* handleScroll: { x: scrollX - state.pan.x, y: scrollY - state.pan.y }, the pan
\* being the one of the render that created the handler
PanDelta(scroll, pan) == [x |-> scroll.x - pan.x, y |-> scroll.y - pan.y]

\* onScroll: a queued scroll event is handled
handleScroll ==
  /\ viewport.scrollPending
  /\ viewport' = [ viewport EXCEPT !.scrollPending = FALSE, !.refPan = viewport.scroll ]
  /\ IF viewport.initialScrollSet
     THEN Commit(PanBy(state, PanDelta(viewport.scroll, viewport.handlerPan)))
     ELSE UNCHANGED state
  /\ UNCHANGED beyondView

\* the render that follows a change of state.pan: handleScroll is created anew
\* and stateRef.current is the state again
render ==
  /\ viewport.handlerPan # state.pan \/ viewport.refPan # state.pan
  /\ viewport' = [ viewport EXCEPT !.handlerPan = state.pan, !.refPan = state.pan ]
  /\ UNCHANGED << state, beyondView >>

\* the effect that sets the initial scroll position, the canvas centre in the
\* middle of the viewport
initialScrollEffect ==
  /\ ~viewport.initialScrollSet
  /\ LET virtualCanvasCenter == (2000 * state.zoom) \div ZoomUnit
         initialScroll == [ x |-> Max2(0, virtualCanvasCenter - clientWidth \div 2),
                            y |-> Max2(0, virtualCanvasCenter - clientHeight \div 2) ]
     IN viewport' = [ ScrollTo(viewport, state.zoom, initialScroll)
                        EXCEPT !.initialScrollSet = TRUE ]
  /\ UNCHANGED << state, beyondView >>

(* ------------------------ group / ungroup ---------------------------- *)
RECURSIVE FoldMin(_, _, _)
FoldMin(seq, F(_), acc) ==
  IF seq = <<>> THEN acc ELSE FoldMin(Tail(seq), F, Min2(acc, F(Head(seq))))

RECURSIVE FoldMax(_, _, _)
FoldMax(seq, F(_), acc) ==
  IF seq = <<>> THEN acc ELSE FoldMax(Tail(seq), F, Max2(acc, F(Head(seq))))

\* a faulty group literal whose children keep their canvas coordinates
MakeGroupAbsolute(groupId, selectedElements) ==
  LET minX == FoldMin(selectedElements, LAMBDA el : el.x, Infinity)
      minY == FoldMin(selectedElements, LAMBDA el : el.y, Infinity)
      maxX == FoldMax(selectedElements, LAMBDA el : el.x + el.width, -Infinity)
      maxY == FoldMax(selectedElements, LAMBDA el : el.y + el.height, -Infinity)
  IN [ id |-> groupId, type |-> "group", shape |-> "none",
       x |-> minX, y |-> minY, width |-> maxX - minX, height |-> maxY - minY,
       rotation |-> 0, children |-> deepCopy(selectedElements) ]

\* the group object built by groupElements from the selected top-level elements
MakeGroup(groupId, selectedElements) ==
  LET minX == FoldMin(selectedElements, LAMBDA el : el.x, Infinity)
      minY == FoldMin(selectedElements, LAMBDA el : el.y, Infinity)
      maxX == FoldMax(selectedElements, LAMBDA el : el.x + el.width, -Infinity)
      maxY == FoldMax(selectedElements, LAMBDA el : el.y + el.height, -Infinity)
      childElements == Map(selectedElements,
                           LAMBDA el : [deepCopy(el) EXCEPT !.x = el.x - minX, !.y = el.y - minY])
  IN [ id |-> groupId, type |-> "group", shape |-> "none",
       x |-> minX, y |-> minY, width |-> maxX - minX, height |-> maxY - minY,
       rotation |-> 0, children |-> childElements ]

\* a faulty guard that lets a single selected element be grouped
TooFewToGroupOffByOne(s) == Len(s.selectedIds) < 1

\* groupElements returns at once when `state.selectedIds.length <= 1`
TooFewToGroup(s) == Len(s.selectedIds) <= 1

\* a faulty grouping that puts the group under the other elements
GroupSelectedInFront(s, groupId) ==
  LET selectedElements == Filter(s.elements, LAMBDA el : IsSelected(s, el))
      group == MakeGroup(groupId, selectedElements)
      elementsWithoutSelected == Filter(s.elements, LAMBDA el : ~IsSelected(s, el))
      s1 == mutateElements(s, << group >> \o elementsWithoutSelected, TRUE, Undefined)
  IN SetSelection(s1, <<groupId>>, FALSE)

\* the store groupElements leaves when it groups the selection of s under groupId
GroupSelected(s, groupId) ==
  LET selectedElements == Filter(s.elements, LAMBDA el : IsSelected(s, el))
      group == MakeGroup(groupId, selectedElements)
      elementsWithoutSelected == Filter(s.elements, LAMBDA el : ~IsSelected(s, el))
      s1 == mutateElements(s, Append(elementsWithoutSelected, group), TRUE, Undefined)
  IN SetSelection(s1, <<groupId>>, FALSE)

groupElements ==
  IF TooFewToGroup(state) THEN UNCHANGED vars
  ELSE
    /\ nextId < MaxId
    /\ CanRecord
    /\ Commit(GroupSelected(state, nextId + 1))
    /\ nextId' = nextId + 1
    /\ UNCHANGED << pressed, clipboardRef, pasteCountRef, refs >>

\* number of elements in a forest, nested children included
RECURSIVE CountNodes(_)
CountNodes(children) ==
  IF children = <<>> THEN 0
  ELSE 1 + CountNodes(Head(children).children) + CountNodes(Tail(children))

\* a faulty processChildren that leaves the children at their relative positions
RECURSIVE processChildrenRelative(_, _, _, _)
processChildrenRelative(children, parentX, parentY, acc) ==
  IF children = <<>> THEN acc
  ELSE
    LET child == Head(children)
        newId == acc.next + 1
        newElement == [deepCopy(child) EXCEPT !.id = newId]
        acc1 == IF newElement.type = "group"
                THEN processChildrenRelative(newElement.children, newElement.x, newElement.y,
                                             [acc EXCEPT !.newIds = Append(acc.newIds, newId),
                                                         !.next = newId])
                ELSE [acc EXCEPT !.newIds = Append(acc.newIds, newId),
                                 !.next = newId,
                                 !.groupChildren = Append(acc.groupChildren, newElement)]
    IN processChildrenRelative(Tail(children), parentX, parentY, acc1)

\* a faulty processChildren that does not descend: a nested group is collected
\* as it is, like any other child
RECURSIVE processChildrenShallow(_, _, _, _)
processChildrenShallow(children, parentX, parentY, acc) ==
  IF children = <<>> THEN acc
  ELSE
    LET child == Head(children)
        newId == acc.next + 1
        newElement == [deepCopy(child) EXCEPT !.x = child.x + parentX,
                                              !.y = child.y + parentY,
                                              !.id = newId]
    IN processChildrenShallow(Tail(children), parentX, parentY,
                              [acc EXCEPT !.newIds = Append(acc.newIds, newId),
                                          !.next = newId,
                                          !.groupChildren = Append(acc.groupChildren, newElement)])

\* processChildren: acc = [groupChildren, newIds, next]; every child gets a fresh id,
\* a nested group is descended into and only non-group elements are collected
RECURSIVE processChildren(_, _, _, _)
processChildren(children, parentX, parentY, acc) ==
  IF children = <<>> THEN acc
  ELSE
    LET child == Head(children)
        newId == acc.next + 1
        newElement == [deepCopy(child) EXCEPT !.x = child.x + parentX,
                                              !.y = child.y + parentY,
                                              !.id = newId]
        acc1 == IF newElement.type = "group"
                THEN processChildren(newElement.children, newElement.x, newElement.y,
                                     [acc EXCEPT !.newIds = Append(acc.newIds, newId),
                                                 !.next = newId])
                ELSE [acc EXCEPT !.newIds = Append(acc.newIds, newId),
                                 !.next = newId,
                                 !.groupChildren = Append(acc.groupChildren, newElement)]
    IN processChildren(Tail(children), parentX, parentY, acc1)

\* state.elements.find(el => el.id === selectedIds[0] && el.type === 'group')
FindSelectedGroup(s) ==
  Filter(s.elements, LAMBDA el : el.id = s.selectedIds[1] /\ el.type = "group")

\* the store ungroupElements leaves when it dissolves `group`, and the last id
\* it has handed out, createId having reached `next` before
UngroupSelected(s, group, next) ==
  LET result == processChildren(group.children, group.x, group.y,
                                [groupChildren |-> <<>>, newIds |-> <<>>, next |-> next])
      elementsWithoutGroup == Filter(s.elements, LAMBDA el : el.id # group.id)
      s1 == mutateElements(s, elementsWithoutGroup \o result.groupChildren, TRUE, Undefined)
  IN [ store |-> SetSelection(s1, result.newIds, FALSE), next |-> result.next ]

ungroupElements ==
  IF Len(state.selectedIds) # 1 THEN UNCHANGED vars
  ELSE IF FindSelectedGroup(state) = <<>> THEN UNCHANGED vars
  ELSE
    LET group == FindSelectedGroup(state)[1] IN
    /\ nextId + CountNodes(group.children) <= MaxId
    /\ CanRecord
    /\ \E result \in { UngroupSelected(state, group, nextId) } :
          /\ Commit(result.store)
          /\ nextId' = result.next
    /\ UNCHANGED << pressed, clipboardRef, pasteCountRef, refs >>

(* --------------------------- snap engine ----------------------------- *)
HLine(value, start, end) == [type |-> "horizontal", value |-> value, start |-> start, end |-> end]
VLine(value, start, end) == [type |-> "vertical", value |-> value, start |-> start, end |-> end]

getSnapLines(element) ==
  LET x == element.x
      y == element.y
      width == element.width
      height == element.height
  IN IF element.type = "shape" /\ element.shape = "triangle"
     THEN << HLine(y, x, x + width),          VLine(x + width \div 2, y, y + height),
             HLine(y + height, x, x + width), VLine(x + width, y, y + height),
             HLine(y + height, x, x + width), VLine(x, y, y + height) >>
     ELSE << HLine(y, x, x + width),
             HLine(y + height \div 2, x, x + width),
             HLine(y + height, x, x + width),
             VLine(x, y, y + height),
             VLine(x + width \div 2, y, y + height),
             VLine(x + width, y, y + height) >>

getSnapPoints(element) ==
  LET x == element.x
      y == element.y
      width == element.width
      height == element.height
  IN IF element.type = "shape" /\ element.shape = "triangle"
     THEN << [x |-> x + width \div 2, y |-> y],
             [x |-> x + width, y |-> y + height],
             [x |-> x, y |-> y + height] >>
     ELSE << [x |-> x, y |-> y],
             [x |-> x + width, y |-> y],
             [x |-> x, y |-> y + height],
             [x |-> x + width, y |-> y + height],
             [x |-> x + width \div 2, y |-> y + height \div 2] >>

RECURSIVE Flatten(_)
Flatten(seqs) == IF seqs = <<>> THEN <<>> ELSE Head(seqs) \o Flatten(Tail(seqs))

\* startSnapshot[el.id] ?? el, the snapshot being the sequence of cloned elements
SnapshotOr(snapshot, el) ==
  LET hit == Filter(snapshot, LAMBDA b : b.id = el.id)
  IN IF hit = <<>> THEN el ELSE hit[1]

\* a faulty search whose range ends one unit short of the threshold
ClosestSnapNarrow(points, lines, originalDx, originalDy, threshold) ==
  LET n == Len(lines)
      Pairs == 1..(Len(points) * n)
      P(k) == points[((k - 1) \div n) + 1]
      L(k) == lines[((k - 1) % n) + 1]
      DistX(k) == Abs(P(k).x + originalDx - L(k).value)
      DistY(k) == Abs(P(k).y + originalDy - L(k).value)
      VPairs == { k \in Pairs : L(k).type = "vertical" /\ DistX(k) < threshold - 1 }
      HPairs == { k \in Pairs : L(k).type # "vertical" /\ DistY(k) < threshold - 1 }
      bestX == CHOOSE k \in VPairs :
                 \A m \in VPairs : DistX(k) < DistX(m) \/ (DistX(k) = DistX(m) /\ k <= m)
      bestY == CHOOSE k \in HPairs :
                 \A m \in HPairs : DistY(k) < DistY(m) \/ (DistY(k) = DistY(m) /\ k <= m)
  IN [ minDistX |-> IF VPairs = {} THEN threshold + 1 ELSE DistX(bestX),
       snapDx   |-> IF VPairs = {} THEN 0 ELSE L(bestX).value - P(bestX).x - originalDx,
       minDistY |-> IF HPairs = {} THEN threshold + 1 ELSE DistY(bestY),
       snapDy   |-> IF HPairs = {} THEN 0 ELSE L(bestY).value - P(bestY).y - originalDy ]

\* a faulty search that keeps the farthest pair in range instead of the closest
ClosestSnapFarthest(points, lines, originalDx, originalDy, threshold) ==
  LET n == Len(lines)
      Pairs == 1..(Len(points) * n)
      P(k) == points[((k - 1) \div n) + 1]
      L(k) == lines[((k - 1) % n) + 1]
      DistX(k) == Abs(P(k).x + originalDx - L(k).value)
      DistY(k) == Abs(P(k).y + originalDy - L(k).value)
      VPairs == { k \in Pairs : L(k).type = "vertical" /\ DistX(k) < threshold + 1 }
      HPairs == { k \in Pairs : L(k).type # "vertical" /\ DistY(k) < threshold + 1 }
      bestX == CHOOSE k \in VPairs : \A m \in VPairs : DistX(k) >= DistX(m)
      bestY == CHOOSE k \in HPairs : \A m \in HPairs : DistY(k) >= DistY(m)
  IN [ minDistX |-> IF VPairs = {} THEN threshold + 1 ELSE DistX(bestX),
       snapDx   |-> IF VPairs = {} THEN 0 ELSE L(bestX).value - P(bestX).x - originalDx,
       minDistY |-> IF HPairs = {} THEN threshold + 1 ELSE DistY(bestY),
       snapDy   |-> IF HPairs = {} THEN 0 ELSE L(bestY).value - P(bestY).y - originalDy ]

\* step 3 of calculateSnap: the two nested loops, point-major.  The pair that
\* wins an axis is the first one, in loop order, at the least distance, provided
\* that distance is below the initial threshold + 1.
ClosestSnap(points, lines, originalDx, originalDy, threshold) ==
  LET n == Len(lines)
      Pairs == 1..(Len(points) * n)
      P(k) == points[((k - 1) \div n) + 1]
      L(k) == lines[((k - 1) % n) + 1]
      DistX(k) == Abs(P(k).x + originalDx - L(k).value)
      DistY(k) == Abs(P(k).y + originalDy - L(k).value)
      VPairs == { k \in Pairs : L(k).type = "vertical" /\ DistX(k) < threshold + 1 }
      HPairs == { k \in Pairs : L(k).type # "vertical" /\ DistY(k) < threshold + 1 }
      bestX == CHOOSE k \in VPairs :
                 \A m \in VPairs : DistX(k) < DistX(m) \/ (DistX(k) = DistX(m) /\ k <= m)
      bestY == CHOOSE k \in HPairs :
                 \A m \in HPairs : DistY(k) < DistY(m) \/ (DistY(k) = DistY(m) /\ k <= m)
  IN [ minDistX |-> IF VPairs = {} THEN threshold + 1 ELSE DistX(bestX),
       snapDx   |-> IF VPairs = {} THEN 0 ELSE L(bestX).value - P(bestX).x - originalDx,
       minDistY |-> IF HPairs = {} THEN threshold + 1 ELSE DistY(bestY),
       snapDy   |-> IF HPairs = {} THEN 0 ELSE L(bestY).value - P(bestY).y - originalDy ]

\* step 4 of calculateSnap: one guide per (point, line) pair aligned at the final position
SnapGuides(points, lines, finalDx, finalDy, guideThreshold) ==
  LET n == Len(lines)
      P(k) == points[((k - 1) \div n) + 1]
      L(k) == lines[((k - 1) % n) + 1]
      Aligned(k) ==
        IF L(k).type = "vertical"
        THEN Abs(P(k).x + finalDx - L(k).value) <= guideThreshold
        ELSE Abs(P(k).y + finalDy - L(k).value) <= guideThreshold
      Guide(k) ==
        LET along == IF L(k).type = "vertical" THEN P(k).y + finalDy ELSE P(k).x + finalDx
        IN [type |-> L(k).type, coor |-> L(k).value,
            start |-> Min2(L(k).start, along),
            length |-> Max2(L(k).end, along) - Min2(L(k).start, along)]
      pairs == SelectSeq([k \in 1..(Len(points) * n) |-> k], Aligned)
  IN [i \in 1..Len(pairs) |-> Guide(pairs[i])]

\* a faulty snap that never corrects the raw delta
SnapToRaw(movingPoints, staticLines, originalDx, originalDy, threshold) ==
  [dx |-> originalDx, dy |-> originalDy,
   guides |-> ArrayFromSet(SnapGuides(movingPoints, staticLines, originalDx, originalDy, threshold))]

\* steps 3 and 4 of calculateSnap on the collected points and lines
SnapTo(movingPoints, staticLines, originalDx, originalDy, threshold) ==
  LET found == ClosestSnap(movingPoints, staticLines, originalDx, originalDy, threshold)
      snapDx == IF found.minDistX > threshold THEN 0 ELSE found.snapDx
      snapDy == IF found.minDistY > threshold THEN 0 ELSE found.snapDy
      finalDx == originalDx + snapDx
      finalDy == originalDy + snapDy
  IN [dx |-> finalDx, dy |-> finalDy,
      guides |-> ArrayFromSet(SnapGuides(movingPoints, staticLines, finalDx, finalDy, threshold))]

calculateSnap(movingElements, allElements, originalDx, originalDy, startSnapshot, threshold) ==
  LET otherElements ==
        Filter(allElements, LAMBDA el : ~\E i \in 1..Len(movingElements) : movingElements[i].id = el.id)
  IN IF Len(otherElements) = 0
     THEN [dx |-> originalDx, dy |-> originalDy, guides |-> <<>>]
     ELSE
       LET staticLines == Flatten(Map(otherElements, getSnapLines))
           movingPoints ==
             Flatten(Map(movingElements, LAMBDA el : getSnapPoints(SnapshotOr(startSnapshot, el))))
       IN CHOOSE result \in { SnapTo(points, lines, originalDx, originalDy, threshold) :
                                points \in {movingPoints}, lines \in {staticLines} } : TRUE

DirHas(direction, c) ==
  \/ direction = c
  \/ (c = "n" /\ direction \in {"ne", "nw"})
  \/ (c = "s" /\ direction \in {"se", "sw"})
  \/ (c = "e" /\ direction \in {"ne", "se"})
  \/ (c = "w" /\ direction \in {"nw", "sw"})

\* index of the first line of the given orientation within threshold of edgeValue, 0 if none
FirstSnapLine(lines, type, edgeValue, threshold) ==
  LET hits == { i \in 1..Len(lines) :
                  lines[i].type = type /\ Abs(edgeValue - lines[i].value) <= threshold }
  IN IF hits = {} THEN 0 ELSE CHOOSE i \in hits : \A j \in hits : i <= j

\* a faulty left-edge snap that moves the box instead of recomputing its width
SnapVerticalKeepsWidth(lines, newBounds, direction, threshold) ==
  LET li == IF DirHas(direction, "w")
            THEN FirstSnapLine(lines, "vertical", newBounds.x, threshold) ELSE 0
      b1 == IF li = 0 THEN newBounds ELSE [newBounds EXCEPT !.x = lines[li].value]
      ri == IF DirHas(direction, "e")
            THEN FirstSnapLine(lines, "vertical", newBounds.x + newBounds.width, threshold) ELSE 0
      b2 == IF ri = 0 THEN b1 ELSE [b1 EXCEPT !.width = lines[ri].value - b1.x]
      guide(i) == << [type |-> "vertical", coor |-> lines[i].value,
                      start |-> Min2(lines[i].start, newBounds.y),
                      length |-> Max2(lines[i].end, newBounds.y + newBounds.height)
                                 - Min2(lines[i].start, newBounds.y)] >>
  IN [bounds |-> b2,
      guides |-> (IF li = 0 THEN <<>> ELSE guide(li)) \o (IF ri = 0 THEN <<>> ELSE guide(ri))]

\* the forEach over activeEdges.vertical: left (if 'w') then right (if 'e')
SnapVertical(lines, newBounds, direction, threshold) ==
  LET li == IF DirHas(direction, "w")
            THEN FirstSnapLine(lines, "vertical", newBounds.x, threshold) ELSE 0
      b1 == IF li = 0 THEN newBounds
            ELSE [newBounds EXCEPT !.x = lines[li].value,
                                   !.width = newBounds.width - (lines[li].value - newBounds.x)]
      ri == IF DirHas(direction, "e")
            THEN FirstSnapLine(lines, "vertical", newBounds.x + newBounds.width, threshold) ELSE 0
      b2 == IF ri = 0 THEN b1 ELSE [b1 EXCEPT !.width = lines[ri].value - b1.x]
      guide(i) == << [type |-> "vertical", coor |-> lines[i].value,
                      start |-> Min2(lines[i].start, newBounds.y),
                      length |-> Max2(lines[i].end, newBounds.y + newBounds.height)
                                 - Min2(lines[i].start, newBounds.y)] >>
  IN [bounds |-> b2,
      guides |-> (IF li = 0 THEN <<>> ELSE guide(li)) \o (IF ri = 0 THEN <<>> ELSE guide(ri))]

\* the forEach over activeEdges.horizontal: top (if 'n') then bottom (if 's')
SnapHorizontal(lines, newBounds, snapped, direction, threshold) ==
  LET ti == IF DirHas(direction, "n")
            THEN FirstSnapLine(lines, "horizontal", newBounds.y, threshold) ELSE 0
      b1 == IF ti = 0 THEN snapped
            ELSE [snapped EXCEPT !.y = lines[ti].value,
                                 !.height = newBounds.height - (lines[ti].value - newBounds.y)]
      bi == IF DirHas(direction, "s")
            THEN FirstSnapLine(lines, "horizontal", newBounds.y + newBounds.height, threshold) ELSE 0
      b2 == IF bi = 0 THEN b1 ELSE [b1 EXCEPT !.height = lines[bi].value - b1.y]
      guide(i, b) == << [type |-> "horizontal", coor |-> lines[i].value,
                         start |-> Min2(lines[i].start, b.x),
                         length |-> Max2(lines[i].end, b.x + b.width) - Min2(lines[i].start, b.x)] >>
  IN [bounds |-> b2,
      guides |-> (IF ti = 0 THEN <<>> ELSE guide(ti, b1)) \o (IF bi = 0 THEN <<>> ELSE guide(bi, b2))]

\* guides deduplicated on `${type}-${coor}`
RECURSIVE UniqueGuides(_, _)
UniqueGuides(guides, acc) ==
  IF guides = <<>> THEN acc
  ELSE LET g == Head(guides)
           seen == \E i \in 1..Len(acc) : acc[i].type = g.type /\ acc[i].coor = g.coor
       IN UniqueGuides(Tail(guides), IF seen THEN acc ELSE Append(acc, g))

calculateResizeSnap(resizingElements, allElements, newBounds, direction, threshold) ==
  LET otherElements ==
        Filter(allElements, LAMBDA el : ~\E i \in 1..Len(resizingElements) : resizingElements[i].id = el.id)
  IN IF Len(otherElements) = 0
     THEN [snappedBounds |-> newBounds, guides |-> <<>>]
     ELSE
       LET staticLines == Flatten(Map(otherElements, getSnapLines))
           v == SnapVertical(staticLines, newBounds, direction, threshold)
           h == SnapHorizontal(staticLines, newBounds, v.bounds, direction, threshold)
       IN [snappedBounds |-> h.bounds, guides |-> UniqueGuides(v.guides \o h.guides, <<>>)]

(* ------------------------ pointer handlers --------------------------- *)
\* pixiUtils getBoundingBox: null for an empty list
getBoundingBox(els) ==
  IF Len(els) = 0 THEN Null ELSE
  LET minX == FoldMin(els, LAMBDA el : el.x, Infinity)
      minY == FoldMin(els, LAMBDA el : el.y, Infinity)
      maxX == FoldMax(els, LAMBDA el : el.x + el.width, -Infinity)
      maxY == FoldMax(els, LAMBDA el : el.y + el.height, -Infinity)
  IN [x |-> minX, y |-> minY, width |-> maxX - minX, height |-> maxY - minY]

\* pixiUtils getHandlePosition, in the frame of the box
getHandlePosition(direction, width, height) ==
  CASE direction = "n"  -> [x |-> width \div 2, y |-> 0]
    [] direction = "e"  -> [x |-> width, y |-> height \div 2]
    [] direction = "s"  -> [x |-> width \div 2, y |-> height]
    [] direction = "w"  -> [x |-> 0, y |-> height \div 2]
    [] direction = "nw" -> [x |-> 0, y |-> 0]
    [] direction = "ne" -> [x |-> width, y |-> 0]
    [] direction = "se" -> [x |-> width, y |-> height]
    [] direction = "sw" -> [x |-> 0, y |-> height]
    [] OTHER            -> [x |-> width, y |-> height]

ElementIds(els) == { els[i].id : i \in 1..Len(els) }

ElementById(els, id) == Filter(els, LAMBDA el : el.id = id)[1]

\* the elements of the rendered selection, as the control layer computes them
RenderedSelection == Filter(state.elements, LAMBDA el : IsSelected(state, el))

\* resize handles are drawn for a non-empty selection in select mode, outside
\* text editing, and not while a drag has moved
HandlesRendered ==
  /\ state.interactionMode = "select"
  /\ Len(state.selectedIds) > 0
  /\ state.editingTextId = NoId
  /\ Len(RenderedSelection) >= 1
  /\ ~(dragRef # Null /\ dragRef.moved)

\* pointer events come from inside the virtual canvas
InCanvas(p) == p.x \in 0..virtualCanvasSize /\ p.y \in 0..virtualCanvasSize

\* the press is delivered to the background when no element lies under the pointer
OnBackground(p) ==
  \A i \in 1..Len(state.elements) :
    LET el == state.elements[i]
    IN ~(el.x <= p.x /\ p.x <= el.x + el.width /\ el.y <= p.y /\ p.y <= el.y + el.height)

handleRotateStart(ptr, id, angle) ==
  /\ ptr \notin pressed
  /\ HandlesRendered
  /\ Len(RenderedSelection) = 1
  /\ RenderedSelection[1].id = id
  /\ InCanvas([x |-> RenderedSelection[1].x + RenderedSelection[1].width,
               y |-> RenderedSelection[1].y])
  /\ CanRecord
  /\ pressed' = pressed \cup {ptr}
  /\ LET element == ElementById(stateRef.elements, id)
     IN rotateRef' = [ id |-> id,
                       startRotation |-> element.rotation,
                       centerX |-> element.x + element.width \div 2,
                       centerY |-> element.y + element.height \div 2,
                       startAngle |-> angle,
                       snapshot |-> cloneElements(stateRef.elements) ]
  /\ UNCHANGED << state, nextId, clipboardRef, pasteCountRef, dragRef, resizeRef, panRef,
                  isSelectedRef, selectionStartRef, selectionLastPosRef, selectionBoxRef,
                  modifierKeysRef, currentGuidesRef, viewport >>

\* the handle closes over the selectedIds of the render that drew it; the press
\* lands on the handle, at getHandlePosition of the selection's box
handleResizeStart(ptr, direction) ==
  /\ ptr \notin pressed
  /\ HandlesRendered
  /\ CanRecord
  /\ pressed' = pressed \cup {ptr}
  /\ LET ids == state.selectedIds
         elements == Filter(stateRef.elements, LAMBDA el : Includes(ids, el.id))
         bounds == getBoundingBox(elements)
         handle == getHandlePosition(direction, bounds.width, bounds.height)
         local == [x |-> bounds.x + handle.x, y |-> bounds.y + handle.y]
     IN /\ InCanvas(local)
        /\ resizeRef' = [ ids |-> ids,
                          direction |-> direction,
                          startPointer |-> local,
                          startElements |-> Map(elements, cloneElement),
                          startBounds |-> bounds,
                          historySnapshot |-> cloneElements(stateRef.elements),
                          moved |-> FALSE ]
  /\ UNCHANGED << state, nextId, clipboardRef, pasteCountRef, rotateRef, dragRef, panRef,
                  isSelectedRef, selectionStartRef, selectionLastPosRef, selectionBoxRef,
                  modifierKeysRef, currentGuidesRef, viewport >>

\* a selection rule that keeps the selection only when the element is the sole selection
PointerDownSelectionSole(selectedIds, elementId, additive) ==
  IF additive THEN ArrayFromSet(Append(selectedIds, elementId))
  ELSE IF selectedIds = << elementId >> THEN selectedIds
  ELSE << elementId >>

\* the selection handleElementPointerDown computes
PointerDownSelection(selectedIds, elementId, additive) ==
  IF additive THEN ArrayFromSet(Append(selectedIds, elementId))
  ELSE IF Includes(selectedIds, elementId) THEN selectedIds
  ELSE << elementId >>

\* the press lands on the element, here at its centre
handleElementPointerDown(ptr, elementId, additive) ==
  /\ ptr \notin pressed
  /\ elementId \in ElementIds(state.elements)
  /\ CanRecord
  /\ pressed' = pressed \cup {ptr}
  /\ IF stateRef.interactionMode # "select"
     THEN UNCHANGED << state, nextId, clipboardRef, pasteCountRef, refs >>
     ELSE
       LET selectedIds == stateRef.selectedIds
           elements == stateRef.elements
           editingTextId == stateRef.editingTextId
           s0 == IF editingTextId # NoId /\ editingTextId # elementId
                 THEN StopEditingText(state) ELSE state
       IN IF editingTextId = elementId
          THEN UNCHANGED << state, nextId, clipboardRef, pasteCountRef, refs >>
          ELSE
            LET clickedElement == ElementById(elements, elementId)
                local == [x |-> clickedElement.x + clickedElement.width \div 2,
                          y |-> clickedElement.y + clickedElement.height \div 2]
                shouldEnterEditOnRelease ==
                  /\ clickedElement.type = "text"
                  /\ Len(selectedIds) = 1
                  /\ Includes(selectedIds, elementId)
                  /\ editingTextId = NoId
                  /\ ~additive
                selection == PointerDownSelection(selectedIds, elementId, additive)
            IN /\ InCanvas(local)
               /\ Commit(SetSelection(s0, selection, FALSE))
               /\ dragRef' = [ ids |-> selection,
                               startPointer |-> local,
                               snapshot |-> Map(Filter(elements,
                                                       LAMBDA el : Includes(selection, el.id)),
                                                cloneElement),
                               historySnapshot |-> cloneElements(elements),
                               moved |-> FALSE,
                               shouldEnterEditOnRelease |-> shouldEnterEditOnRelease ]
               /\ UNCHANGED << nextId, clipboardRef, pasteCountRef, rotateRef, resizeRef,
                               panRef, isSelectedRef, selectionStartRef, selectionLastPosRef,
                               selectionBoxRef, modifierKeysRef, currentGuidesRef,
                               viewport >>

\* background.on("pointerdown") with a primary button.  The scroll offset that
\* panRef also captures belongs to the viewport, which is not part of this state.
\* a faulty background press that starts no marquee while a modifier is held
backgroundPointerDownUnlessAdditive(ptr, localPos) ==
  LET s0 == IF stateRef.editingTextId # NoId THEN StopEditingText(state) ELSE state
      additive == modifierKeysRef.shiftKey \/ modifierKeysRef.metaKey \/ modifierKeysRef.ctrlKey
  IN
  /\ ptr \notin pressed
  /\ InCanvas(localPos)
  /\ OnBackground(localPos)
  /\ pressed' = pressed \cup {ptr}
  /\ Commit(s0)
  /\ IF stateRef.interactionMode = "pan"
     THEN /\ panRef' = [ startPointer |-> localPos, startScroll |-> viewport.scroll ]
          /\ UNCHANGED << isSelectedRef, selectionStartRef, selectionLastPosRef, selectionBoxRef >>
     ELSE IF additive
     THEN UNCHANGED << panRef, isSelectedRef, selectionStartRef, selectionLastPosRef,
                       selectionBoxRef >>
     ELSE /\ selectionStartRef' = localPos
          /\ selectionLastPosRef' = localPos
          /\ isSelectedRef' = TRUE
          /\ selectionBoxRef' = TRUE
          /\ UNCHANGED panRef
  /\ UNCHANGED << nextId, clipboardRef, pasteCountRef, rotateRef, dragRef, resizeRef,
                  modifierKeysRef, currentGuidesRef, viewport >>

backgroundPointerDown(ptr, localPos) ==
  LET s0 == IF stateRef.editingTextId # NoId THEN StopEditingText(state) ELSE state IN
  /\ ptr \notin pressed
  /\ InCanvas(localPos)
  /\ OnBackground(localPos)
  /\ pressed' = pressed \cup {ptr}
  /\ Commit(s0)
  /\ IF stateRef.interactionMode = "pan"
     THEN /\ panRef' = [ startPointer |-> localPos, startScroll |-> viewport.scroll ]
          /\ UNCHANGED << isSelectedRef, selectionStartRef, selectionLastPosRef, selectionBoxRef >>
     ELSE /\ selectionStartRef' = localPos
          /\ selectionLastPosRef' = localPos
          /\ isSelectedRef' = TRUE
          /\ selectionBoxRef' = TRUE
          /\ UNCHANGED panRef
  /\ UNCHANGED << nextId, clipboardRef, pasteCountRef, rotateRef, dragRef, resizeRef,
                  modifierKeysRef, currentGuidesRef, viewport >>

\* v * (num / den), the scale factor being the quotient newBounds / startBounds
Scale(v, num, den) == (v * num) \div den

\* Math.round(v / SNAP_ANGLE) * SNAP_ANGLE
RoundToSnapAngle(v) == ((2 * v + SNAP_ANGLE) \div (2 * SNAP_ANGLE)) * SNAP_ANGLE

\* newBounds of performResize before snapping
ResizedBounds(startBounds, direction, dx, dy) ==
  LET b1 == IF DirHas(direction, "e")
            THEN [startBounds EXCEPT !.width = Max2(MIN_ELEMENT_SIZE, startBounds.width + dx)]
            ELSE startBounds
      b2 == IF DirHas(direction, "s")
            THEN [b1 EXCEPT !.height = Max2(MIN_ELEMENT_SIZE, startBounds.height + dy)]
            ELSE b1
      b3 == IF DirHas(direction, "w")
            THEN LET updatedWidth == Max2(MIN_ELEMENT_SIZE, startBounds.width - dx)
                 IN [b2 EXCEPT !.width = updatedWidth,
                               !.x = startBounds.x + (startBounds.width - updatedWidth)]
            ELSE b2
      b4 == IF DirHas(direction, "n")
            THEN LET updatedHeight == Max2(MIN_ELEMENT_SIZE, startBounds.height - dy)
                 IN [b3 EXCEPT !.height = updatedHeight,
                               !.y = startBounds.y + (startBounds.height - updatedHeight)]
            ELSE b3
  IN b4

\* a faulty updater that scales the element as the last pointer-move left it
ResizeElementFromCurrent(el, info, newBounds) ==
  LET startBounds == info.startBounds
      sxNum == IF startBounds.width > 0 THEN newBounds.width ELSE 1
      sxDen == IF startBounds.width > 0 THEN startBounds.width ELSE 1
      syNum == IF startBounds.height > 0 THEN newBounds.height ELSE 1
      syDen == IF startBounds.height > 0 THEN startBounds.height ELSE 1
      scaledChildren ==
        Map(el.children,
            LAMBDA child :
              [child EXCEPT !.x = Scale(child.x, sxNum, sxDen),
                            !.y = Scale(child.y, syNum, syDen),
                            !.width = Max2(MIN_ELEMENT_SIZE, Scale(child.width, sxNum, sxDen)),
                            !.height = Max2(MIN_ELEMENT_SIZE, Scale(child.height, syNum, syDen))])
      resized == [el EXCEPT !.x = newBounds.x + Scale(el.x - startBounds.x, sxNum, sxDen),
                            !.y = newBounds.y + Scale(el.y - startBounds.y, syNum, syDen),
                            !.width = Max2(MIN_ELEMENT_SIZE, Scale(el.width, sxNum, sxDen)),
                            !.height = Max2(MIN_ELEMENT_SIZE, Scale(el.height, syNum, syDen))]
  IN IF ~Includes(info.ids, el.id) THEN el
     ELSE IF el.type = "group" THEN [resized EXCEPT !.children = scaledChildren] ELSE resized

\* a faulty updater that scales the sizes without the floor
ResizeElementNoFloor(el, info, newBounds) ==
  LET startBounds == info.startBounds
      sxNum == IF startBounds.width > 0 THEN newBounds.width ELSE 1
      sxDen == IF startBounds.width > 0 THEN startBounds.width ELSE 1
      syNum == IF startBounds.height > 0 THEN newBounds.height ELSE 1
      syDen == IF startBounds.height > 0 THEN startBounds.height ELSE 1
      starts == Filter(info.startElements, LAMBDA b : b.id = el.id)
  IN IF ~Includes(info.ids, el.id) \/ starts = <<>> THEN el
     ELSE
       LET startEl == starts[1]
           scaledChildren ==
             Map(startEl.children,
                 LAMBDA child :
                   [child EXCEPT !.x = Scale(child.x, sxNum, sxDen),
                                 !.y = Scale(child.y, syNum, syDen),
                                 !.width = Scale(child.width, sxNum, sxDen),
                                 !.height = Scale(child.height, syNum, syDen)])
           resized == [el EXCEPT !.x = newBounds.x + Scale(startEl.x - startBounds.x, sxNum, sxDen),
                                 !.y = newBounds.y + Scale(startEl.y - startBounds.y, syNum, syDen),
                                 !.width = Scale(startEl.width, sxNum, sxDen),
                                 !.height = Scale(startEl.height, syNum, syDen)]
       IN IF el.type = "group" THEN [resized EXCEPT !.children = scaledChildren] ELSE resized

\* the updater of performResize applied to one element
ResizeElement(el, info, newBounds) ==
  LET startBounds == info.startBounds
      sxNum == IF startBounds.width > 0 THEN newBounds.width ELSE 1
      sxDen == IF startBounds.width > 0 THEN startBounds.width ELSE 1
      syNum == IF startBounds.height > 0 THEN newBounds.height ELSE 1
      syDen == IF startBounds.height > 0 THEN startBounds.height ELSE 1
      starts == Filter(info.startElements, LAMBDA b : b.id = el.id)
  IN IF ~Includes(info.ids, el.id) \/ starts = <<>> THEN el
     ELSE
       LET startEl == starts[1]
           newX == newBounds.x + Scale(startEl.x - startBounds.x, sxNum, sxDen)
           newY == newBounds.y + Scale(startEl.y - startBounds.y, syNum, syDen)
           newWidth == Max2(MIN_ELEMENT_SIZE, Scale(startEl.width, sxNum, sxDen))
           newHeight == Max2(MIN_ELEMENT_SIZE, Scale(startEl.height, syNum, syDen))
           scaledChildren ==
             Map(startEl.children,
                 LAMBDA child :
                   [child EXCEPT !.x = Scale(child.x, sxNum, sxDen),
                                 !.y = Scale(child.y, syNum, syDen),
                                 !.width = Max2(MIN_ELEMENT_SIZE, Scale(child.width, sxNum, sxDen)),
                                 !.height = Max2(MIN_ELEMENT_SIZE, Scale(child.height, syNum, syDen))])
       IN IF el.type = "group"
          THEN [el EXCEPT !.x = newX, !.y = newY, !.width = newWidth, !.height = newHeight,
                          !.children = scaledChildren]
          ELSE [el EXCEPT !.x = newX, !.y = newY, !.width = newWidth, !.height = newHeight]

\* performResize(info, dx, dy, true): the snap guides and the new store
performResize(info, dx, dy) ==
  LET raw == ResizedBounds(info.startBounds, info.direction, dx, dy)
      resizingElements == Filter(stateRef.elements, LAMBDA el : Includes(info.ids, el.id))
      Resized(snapResult) ==
        [ guides |-> snapResult.guides,
          store |-> mutateElements(state,
                                   Map(state.elements,
                                       LAMBDA el : ResizeElement(el, info, snapResult.snappedBounds)),
                                   FALSE, Undefined) ]
  IN CHOOSE result \in
       { Resized(snapResult) :
           snapResult \in { calculateResizeSnap(resizingElements, stateRef.elements, raw,
                                                 info.direction,
                                                 (SnapThresholdPixels * ZoomUnit) \div stateRef.zoom) } } : TRUE

\* the drag branch of pointermove for the drag record `current`, the pointer
\* being `delta` away from startPointer: the snap result, the guides, the drag
\* record and the store it leaves
dragMove(current, delta) ==
  LET dx == delta.x
      dy == delta.y
      movingElements == Filter(stateRef.elements, LAMBDA el : Includes(current.ids, el.id))
      Dragged(snap) ==
        LET updated == Map(state.elements,
                           LAMBDA el :
                             IF ~Includes(current.ids, el.id) THEN el
                             ELSE LET base == SnapshotOr(current.snapshot, el)
                                  IN [el EXCEPT !.x = base.x + snap.dx, !.y = base.y + snap.dy])
            moves == snap.dx # 0 \/ snap.dy # 0
        IN [ snap |-> snap,
             guides |-> snap.guides,
             dragRef |-> IF moves THEN [current EXCEPT !.moved = TRUE] ELSE current,
             store |-> IF moves THEN mutateElements(state, updated, FALSE, Undefined) ELSE state ]
  IN CHOOSE result \in
       { Dragged(snap) :
           snap \in { calculateSnap(movingElements, stateRef.elements, dx, dy, current.snapshot,
                                     (SnapThresholdPixels * ZoomUnit) \div stateRef.zoom) } } : TRUE

\* app.stage.on("pointermove"): the first active gesture in the order marquee,
\* resize, rotate, drag, pan handles the event.  The pointer is `delta` away
\* from the point where that gesture was pressed, at `angle` about the centre.
pointermove(delta, shiftKey, angle) ==
  /\ modifierKeysRef' = [shiftKey |-> shiftKey, metaKey |-> FALSE, ctrlKey |-> FALSE]
  /\ IF isSelectedRef /\ selectionStartRef # Null /\ selectionBoxRef
     THEN /\ selectionLastPosRef' = [x |-> selectionStartRef.x + delta.x,
                                     y |-> selectionStartRef.y + delta.y]
          /\ UNCHANGED << state, resizeRef, dragRef, currentGuidesRef, viewport >>
     ELSE IF resizeRef # Null
     THEN LET current == resizeRef
              dx == delta.x
              dy == delta.y
          IN \E r \in { performResize(current, dx, dy) } :
             /\ resizeRef' = [current EXCEPT !.moved = TRUE]
             /\ currentGuidesRef' = r.guides
             /\ Commit(r.store)
             /\ UNCHANGED << selectionLastPosRef, dragRef, viewport >>
     ELSE IF rotateRef # Null
     THEN LET raw == rotateRef.startRotation + (angle - rotateRef.startAngle)
              newRotationDeg == IF shiftKey THEN RoundToSnapAngle(raw) ELSE raw
              updated == Map(state.elements,
                             LAMBDA el : IF el.id # rotateRef.id THEN el
                                         ELSE [el EXCEPT !.rotation = newRotationDeg])
          IN /\ Commit(mutateElements(state, updated, FALSE, Undefined))
             /\ UNCHANGED << selectionLastPosRef, resizeRef, dragRef, currentGuidesRef,
                             viewport >>
     ELSE IF dragRef # Null
     THEN \E r \in { dragMove(dragRef, delta) } :
             /\ currentGuidesRef' = r.guides
             /\ dragRef' = r.dragRef
             /\ Commit(r.store)
             /\ UNCHANGED << selectionLastPosRef, resizeRef, viewport >>
     ELSE IF panRef # Null
     THEN /\ viewport' = ScrollTo(viewport, stateRef.zoom,
                                  [x |-> panRef.startScroll.x - delta.x,
                                   y |-> panRef.startScroll.y - delta.y])
          /\ UNCHANGED << state, selectionLastPosRef, resizeRef, dragRef, currentGuidesRef >>
     ELSE UNCHANGED << state, selectionLastPosRef, resizeRef, dragRef, currentGuidesRef,
                       viewport >>
  /\ UNCHANGED << pressed, nextId, clipboardRef, pasteCountRef, rotateRef, panRef, isSelectedRef,
                  selectionStartRef, selectionBoxRef >>

\* a faulty hit test that takes the press for the top-left corner of the marquee
MarqueeHitsFromPress(els, start, end) ==
  Filter(els, LAMBDA elem :
    ~( \/ elem.x + elem.width < start.x
       \/ elem.x > end.x
       \/ elem.y + elem.height < start.y
       \/ elem.y > end.y ))

\* the marquee hit test of stopInteractions on stored, unrotated rectangles
MarqueeHits(els, start, end) ==
  LET selectionLeft == Min2(start.x, end.x)
      selectionTop == Min2(start.y, end.y)
      selectionRight == Max2(start.x, end.x)
      selectionBottom == Max2(start.y, end.y)
  IN Filter(els, LAMBDA elem :
       ~( \/ elem.x + elem.width < selectionLeft
          \/ elem.x > selectionRight
          \/ elem.y + elem.height < selectionTop
          \/ elem.y > selectionBottom ))

\* a faulty release that leaves the guides of the gesture on screen
GuidesKeptOnRelease(guides) == guides

\* currentGuidesRef after stopInteractions: emptied when a drag or a resize ends
GuidesAfterRelease(guides) ==
  IF dragRef # Null \/ resizeRef # Null THEN <<>> ELSE guides

\* a faulty release test that enters text editing after a drag that moved
EntersEditOnReleaseMoved(ref) ==
  ref # Null /\ ref.shouldEnterEditOnRelease /\ Len(ref.ids) > 0

\* the release enters text editing: the drag was armed by the press and did not move
EntersEditOnRelease(ref) ==
  ref # Null /\ ref.shouldEnterEditOnRelease /\ ~ref.moved /\ Len(ref.ids) > 0

\* stopInteractions: pointerup and pointerupoutside of a pressed pointer
stopInteractions(ptr) ==
  LET s1 == IF rotateRef # Null
            THEN mutateElements(state, state.elements, TRUE, rotateRef.snapshot)
            ELSE state
      marquee == isSelectedRef /\ selectionBoxRef /\ selectionStartRef # Null
                 /\ selectionLastPosRef # Null
      hits == MarqueeHits(stateRef.elements, selectionStartRef, selectionLastPosRef)
      additive == modifierKeysRef.shiftKey \/ modifierKeysRef.metaKey \/ modifierKeysRef.ctrlKey
      s2 == IF marquee
            THEN IF Len(hits) > 0
                 THEN SetSelection(s1, Map(hits, LAMBDA el : el.id), additive)
                 ELSE ClearSelection(s1)
            ELSE s1
      s3 == IF EntersEditOnRelease(dragRef)
            THEN StartEditingText(s2, dragRef.ids[1])
            ELSE s2
      s4 == IF dragRef # Null /\ dragRef.moved
            THEN mutateElements(s3, s3.elements, TRUE, dragRef.historySnapshot)
            ELSE s3
      s5 == IF resizeRef # Null /\ resizeRef.moved
            THEN mutateElements(s4, s4.elements, TRUE, resizeRef.historySnapshot)
            ELSE s4
  IN /\ ptr \in pressed
     /\ pressed' = pressed \ {ptr}
     /\ Commit(s5)
     /\ rotateRef' = Null
     /\ IF marquee
        THEN selectionBoxRef' = FALSE /\ selectionLastPosRef' = Null
        ELSE UNCHANGED << selectionBoxRef, selectionLastPosRef >>
     /\ isSelectedRef' = FALSE
     /\ selectionStartRef' = Null
     /\ currentGuidesRef' = GuidesAfterRelease(currentGuidesRef)
     /\ dragRef' = Null
     /\ resizeRef' = Null
     /\ panRef' = Null
     /\ UNCHANGED << nextId, clipboardRef, pasteCountRef, modifierKeysRef, viewport >>

(* ------------------------- specification ----------------------------- *)
\* a document that localStorage may hold at start-up
StoredDocument ==
  << [ id |-> 1, type |-> "shape", shape |-> "rectangle", x |-> 1700, y |-> 1800,
       width |-> 220, height |-> 140, rotation |-> 0, children |-> <<>> ],
     [ id |-> 2, type |-> "text", shape |-> "none", x |-> 1870, y |-> 1942,
       width |-> 260, height |-> 80, rotation |-> 0, children |-> <<>> ] >>

\* getInitialState: the base state with the stored elements restored
getInitialState(stored) == [deepCopy(baseState) EXCEPT !.elements = stored]

\* the state after construction, localStorage holding the elements `stored`
InitFrom(stored) ==
  /\ state = getInitialState(stored)
  /\ nextId = CountNodes(stored)
  /\ pressed = {}
  /\ clipboardRef = <<>>
  /\ pasteCountRef = 1
  /\ rotateRef = Null
  /\ dragRef = Null
  /\ resizeRef = Null
  /\ panRef = Null
  /\ isSelectedRef = FALSE
  /\ selectionStartRef = Null
  /\ selectionLastPosRef = Null
  /\ selectionBoxRef = FALSE
  /\ modifierKeysRef = [shiftKey |-> FALSE, metaKey |-> FALSE, ctrlKey |-> FALSE]
  /\ currentGuidesRef = <<>>
  /\ viewport = [ scroll |-> [x |-> 0, y |-> 0],
                  scrollPending |-> FALSE,
                  initialScrollSet |-> FALSE,
                  handlerPan |-> state.pan,
                  refPan |-> state.pan,
                  fitTimeout |-> Null ]

\* a document stored with its one shape near the corner of the virtual canvas
CornerDocument ==
  << [ id |-> 1, type |-> "shape", shape |-> "rectangle", x |-> 3300, y |-> 3200,
       width |-> 220, height |-> 140, rotation |-> 0, children |-> <<>> ] >>

\* a first visit: nothing is stored
Init == InitFrom(<<>>)

\* a later visit: the saved document is restored
InitStored == InitFrom(StoredDocument)

\* the pointer listeners, the pointer visiting `samples` and pressing the
\* resize handles `directions`
PointerEventsWith(pointers, shiftKeys, samples, directions) ==
  \/ \E ptr \in pointers, id \in 1..MaxId, angle \in StartAngles : handleRotateStart(ptr, id, angle)
  \/ \E ptr \in pointers, direction \in directions : handleResizeStart(ptr, direction)
  \/ \E ptr \in pointers, id \in 1..MaxId, additive \in BOOLEAN :
        handleElementPointerDown(ptr, id, additive)
  \/ \E ptr \in pointers, localPos \in BackgroundPoints : backgroundPointerDown(ptr, localPos)
  \/ \E sample \in samples, shiftKey \in shiftKeys :
        pointermove(sample.delta, shiftKey, sample.angle)
  \/ \E ptr \in pointers : stopInteractions(ptr)

PointerEvents(pointers, shiftKeys) ==
  PointerEventsWith(pointers, shiftKeys, PointerSamples, Directions)

\* no pointer is down: the commands of the toolbar, the panels and the
\* keyboard arrive between gestures
BetweenGestures == pressed = {}

\* an editing session with the mouse, starting from the empty document
Next ==
  \/ BetweenGestures /\ addShape("rectangle")
  \/ BetweenGestures /\ addText
  \/ BetweenGestures /\ deleteSelected
  \/ BetweenGestures /\ bringToFront
  \/ BetweenGestures /\ sendToBack
  \/ BetweenGestures /\ groupElements
  \/ BetweenGestures /\ ungroupElements
  \/ BetweenGestures /\ undo
  \/ BetweenGestures /\ redo
  \/ BetweenGestures /\ \E mode \in {"select", "pan"} : setInteractionMode(mode)
  \/ PointerEvents(MousePointers, {FALSE})

Spec == Init /\ [][Next]_vars

\* a session at the keyboard and the toolbar, the clipboard included
NextCommands ==
  \/ addShape("rectangle")
  \/ addText
  \/ copy
  \/ paste
  \/ deleteSelected
  \/ bringToFront
  \/ sendToBack
  \/ groupElements
  \/ ungroupElements
  \/ undo
  \/ redo
  \/ \E mode \in {"select", "pan"} : setInteractionMode(mode)

SpecCommands == Init /\ [][NextCommands]_vars

\* a session with the mouse over the restored document
NextStored ==
  \/ BetweenGestures /\ undo
  \/ BetweenGestures /\ redo
  \/ BetweenGestures /\ \E mode \in {"select", "pan"} : setInteractionMode(mode)
  \/ PointerEvents(MousePointers, {FALSE})

SpecStored == InitStored /\ [][NextStored]_vars

\* a session on a touch screen over a restored document: one pointer per finger
NextTouch == PointerEvents(TouchPointers, {FALSE})

SpecTouch == InitFrom(CornerDocument) /\ [][NextTouch]_vars

\* the square of the snapping scenarios, moved by a drag near the static square
Square(id, x, y, width, height) ==
  [ id |-> id, type |-> "shape", shape |-> "rectangle", x |-> x, y |-> y,
    width |-> width, height |-> height, rotation |-> 0, children |-> <<>> ]

\* A at (0,0,100,100) and B at (205,0,100,100)
ScenarioDocument == << Square(1, 0, 0, 100, 100), Square(2, 205, 0, 100, 100) >>
\* the same with B one unit more than 6 to the right of A
NearDocument == << Square(1, 0, 0, 100, 100), Square(2, 105, 0, 100, 100) >>
\* the same with a narrower B, so that edges and centres of A and B interleave
NarrowDocument == << Square(1, 0, 0, 100, 100), Square(2, 205, 0, 96, 100) >>

SnapDocuments == { ScenarioDocument, NearDocument, NarrowDocument }

\* the pointer rests, or has travelled 6 to the left since the press
SnapSamples == { [delta |-> [x |-> 0, y |-> 0], angle |-> 0],
                 [delta |-> [x |-> -6, y |-> 0], angle |-> 0] }

InitSnap == \E stored \in SnapDocuments : InitFrom(stored)

\* drags with the mouse over one of the snapping documents
NextSnap ==
  \/ \E ptr \in MousePointers, id \in 1..MaxId, additive \in BOOLEAN :
        handleElementPointerDown(ptr, id, additive)
  \/ \E sample \in SnapSamples : pointermove(sample.delta, FALSE, sample.angle)
  \/ \E ptr \in MousePointers : stopInteractions(ptr)

SpecSnap == InitSnap /\ [][NextSnap]_vars

\* a group as groupElements builds it, its children relative to its corner
Group(id, x, y, width, height, children) ==
  [ id |-> id, type |-> "group", shape |-> "none", x |-> x, y |-> y,
    width |-> width, height |-> height, rotation |-> 0, children |-> children ]

\* stored documents for resizing: a group holding a group that holds a shape,
\* next to a shape 3 units off its right edge; two shapes to be resized
\* together, with a third one further right
NestedDocument ==
  << Group(1, 0, 0, 200, 100, << Group(2, 20, 10, 100, 80, << Square(3, 10, 10, 40, 40) >>) >>),
     Square(4, 203, 0, 100, 104) >>

PairDocument ==
  << Square(1, 0, 0, 100, 100), Square(2, 200, 100, 100, 100), Square(3, 403, 0, 100, 100) >>

\* a stored shape that lies on its side
RotatedDocument == << [Square(1, 0, 0, 100, 50) EXCEPT !.rotation = 90] >>

ResizeDocuments == { NestedDocument, PairDocument }

\* the handles that are pressed and where the pointer goes from there
ResizeDirections == { "se", "w" }

ResizeSamples == { [delta |-> [x |-> 300, y |-> -100], angle |-> 0] }

InitResize == \E stored \in ResizeDocuments : InitFrom(stored)

\* selecting with the mouse and resizing the selection by its handles
NextResize ==
  \/ \E ptr \in MousePointers, id \in 1..MaxId, additive \in BOOLEAN :
        handleElementPointerDown(ptr, id, additive)
  \/ \E ptr \in MousePointers, direction \in ResizeDirections : handleResizeStart(ptr, direction)
  \/ \E sample \in ResizeSamples : pointermove(sample.delta, FALSE, sample.angle)
  \/ \E ptr \in MousePointers : stopInteractions(ptr)

SpecResize == InitResize /\ [][NextResize]_vars

\* the same session over the shape on its side and an upright neighbour
SpecRotated ==
  InitFrom(RotatedDocument \o << Square(2, 300, 300, 50, 50) >>) /\ [][NextResize]_vars

\* stored documents for grouping: three shapes, the second one rotated; four
\* shapes; a shape under a group that was stored
TrioDocument ==
  << Square(1, 100, 50, 100, 100),
     [Square(2, 40, 120, 60, 200) EXCEPT !.rotation = 30],
     Square(3, 300, 300, 50, 50) >>

QuadDocument ==
  << Square(1, 100, 50, 100, 100),
     [Square(2, 40, 120, 60, 200) EXCEPT !.rotation = 30],
     Square(3, 300, 300, 50, 50),
     Square(4, 0, 400, 80, 20) >>

GroupedDocument ==
  << Square(1, 100, 50, 100, 100),
     Group(2, 300, 300, 50, 50, << Square(3, 0, 0, 50, 50) >>) >>

\* a stored group that holds a group, and a stored group between two shapes
DeepDocument ==
  << Group(1, 100, 100, 200, 100, << Group(2, 20, 10, 100, 80, << Square(3, 10, 10, 40, 40) >>) >>) >>

MiddleDocument ==
  << Square(1, 0, 0, 100, 100),
     Group(2, 300, 300, 50, 50, << Square(3, 0, 0, 50, 50) >>),
     Square(4, 0, 400, 80, 20) >>

\* two shapes, the second one rotated
DuoDocument ==
  << Square(1, 100, 50, 100, 100), [Square(2, 40, 120, 60, 200) EXCEPT !.rotation = 30] >>

GroupDocuments ==
  { DuoDocument, TrioDocument, QuadDocument, GroupedDocument, DeepDocument, MiddleDocument }

InitGroup == \E stored \in GroupDocuments : InitFrom(stored)

\* clicking and shift-clicking elements, grouping and ungrouping the
\* selection, undoing and redoing
NextGroup ==
  \/ \E ptr \in MousePointers, id \in 1..MaxId, additive \in BOOLEAN :
        handleElementPointerDown(ptr, id, additive)
  \/ \E ptr \in MousePointers : stopInteractions(ptr)
  \/ BetweenGestures /\ groupElements
  \/ BetweenGestures /\ ungroupElements
  \/ BetweenGestures /\ undo
  \/ BetweenGestures /\ redo

SpecGroup == InitGroup /\ [][NextGroup]_vars

\* a stored document for the marquee: a shape, a small shape over it, and a
\* shape far to the right
MarqueeDocument ==
  << Square(1, 40, 40, 100, 100), Square(2, 60, 60, 10, 10), Square(3, 300, 0, 50, 50) >>

\* where the empty canvas is pressed, and where the pointer goes from there
MarqueeStarts == { [x |-> 0, y |-> 0], [x |-> 50, y |-> 0], [x |-> 0, y |-> 50],
                   [x |-> 200, y |-> 200] }

MarqueeSamples == { [delta |-> [x |-> 0, y |-> 0], angle |-> 0],
                    [delta |-> [x |-> 50, y |-> 50], angle |-> 0],
                    [delta |-> [x |-> -50, y |-> 50], angle |-> 0],
                    [delta |-> [x |-> 50, y |-> -50], angle |-> 0],
                    [delta |-> [x |-> 39, y |-> 39], angle |-> 0],
                    [delta |-> [x |-> -40, y |-> -200], angle |-> 0],
                    [delta |-> [x |-> 100, y |-> -200], angle |-> 0] }

\* pressing the empty canvas, sweeping with or without shift, releasing
NextMarquee ==
  \/ \E ptr \in MousePointers, localPos \in MarqueeStarts : backgroundPointerDown(ptr, localPos)
  \/ \E sample \in MarqueeSamples, shiftKey \in BOOLEAN :
        pointermove(sample.delta, shiftKey, sample.angle)
  \/ \E ptr \in MousePointers : stopInteractions(ptr)

SpecMarquee == InitFrom(MarqueeDocument) /\ [][NextMarquee]_vars

\* TextEditOverlay handleBlur: the editor loses the focus, to a control outside
\* the text toolbar, and text editing ends
handleBlur ==
  /\ state.editingTextId # NoId
  /\ Commit(StopEditingText(state))
  /\ UNCHANGED << pressed, nextId, clipboardRef, pasteCountRef, refs >>

\* a session with the mouse over the restored document, text editing included:
\* a click on the top bar takes the focus from the editor before it is handled
NextText ==
  \/ handleBlur
  \/ /\ BetweenGestures
     /\ state.editingTextId = NoId
     /\ \E mode \in {"select", "pan"} : setInteractionMode(mode)
  \/ PointerEvents(MousePointers, {FALSE})

SpecText == InitStored /\ [][NextText]_vars

\* a document with one shape at (10, 10)
PasteDocument == << Square(1, 10, 10, 100, 100) >>

\* a session that selects with the mouse and works with the clipboard
NextPaste ==
  \/ \E ptr \in MousePointers, id \in 1..MaxId, additive \in BOOLEAN :
        handleElementPointerDown(ptr, id, additive)
  \/ \E ptr \in MousePointers : stopInteractions(ptr)
  \/ BetweenGestures /\ copy
  \/ BetweenGestures /\ paste
  \/ BetweenGestures /\ deleteSelected
  \/ BetweenGestures /\ undo
  \/ BetweenGestures /\ redo

SpecPaste == InitFrom(PasteDocument) /\ [][NextPaste]_vars

\* the values the zoom slider is dragged to and the sizes typed for the artboard
SliderValues == { 25, 300 }
ArtboardSizes == { 100, 600, 4000 }

\* a session at the view controls: the zoom, the artboard size and the fit they cause
NextView ==
  \/ \E deltaY \in { -1, 1 } : handleGlobalWheelInternal(deltaY)
  \/ zoomOutClick
  \/ zoomInClick
  \/ \E value \in SliderValues : zoomSliderChange(value)
  \/ \E width \in ArtboardSizes : updateArtboard([width |-> Max2(100, width)])
  \/ \E height \in ArtboardSizes : updateArtboard([height |-> Max2(100, height)])
  \/ \E width \in ArtboardSizes : updateArtboardWithFit([width |-> width])
  \/ \E height \in ArtboardSizes : updateArtboardWithFit([height |-> height])
  \/ \E width, height \in ArtboardSizes :
        updateArtboardWithFit([width |-> width, height |-> height])

SpecView == Init /\ [][NextView]_vars

\* a session that selects layers of a stored document and reorders them
NextOrder ==
  \/ \E ptr \in MousePointers, id \in 1..MaxId, additive \in BOOLEAN :
        handleElementPointerDown(ptr, id, additive)
  \/ \E ptr \in MousePointers : stopInteractions(ptr)
  \/ BetweenGestures /\ bringToFront
  \/ BetweenGestures /\ sendToBack

SpecOrder == InitFrom(TrioDocument) /\ [][NextOrder]_vars

\* where the pointer of a pan drag goes from the press
ScrollSamples == { [delta |-> [x |-> -700, y |-> -800], angle |-> 0],
                   [delta |-> [x |-> -1400, y |-> -1600], angle |-> 0],
                   [delta |-> [x |-> 700, y |-> 800], angle |-> 0] }

\* the last render shows the store: no update is waiting to be rendered
Rendered == viewport.handlerPan = state.pan /\ viewport.refPan = state.pan

\* state.pan is within the range the session follows it in
PanInRange ==
  /\ state.pan.x \in -MaxPan..MaxPan
  /\ state.pan.y \in -MaxPan..MaxPan

\* a session that pans the canvas by dragging: clicks and presses are handled
\* once the pending render is done, pointer moves and scroll events at any time
NextScroll ==
  \/ initialScrollEffect
  \/ /\ viewport.initialScrollSet /\ Rendered /\ BetweenGestures
     /\ \E mode \in {"select", "pan"} : setInteractionMode(mode)
  \/ /\ viewport.initialScrollSet /\ Rendered
     /\ \E ptr \in MousePointers, localPos \in BackgroundPoints : backgroundPointerDown(ptr, localPos)
  \/ /\ viewport.initialScrollSet
     /\ \E sample \in ScrollSamples : pointermove(sample.delta, FALSE, sample.angle)
  \/ /\ viewport.initialScrollSet /\ Rendered
     /\ \E ptr \in MousePointers : stopInteractions(ptr)
  \/ PanInRange /\ handleScroll
  \/ render

SpecScroll == Init /\ [][NextScroll]_vars

\* a stored document of one group
SoloGroupDocument == << Group(1, 300, 300, 50, 50, << Square(2, 0, 0, 50, 50) >>) >>

\* the size addImage falls back to
ImageSizes == { [width |-> 240, height |-> 160] }

\* handleKeyDown of PixiCanvas: Ctrl+G and Ctrl+Shift+G
groupShortcut == Len(state.selectedIds) >= 2 /\ groupElements
ungroupShortcut ==
  /\ Len(state.selectedIds) = 1
  /\ FindSelectedGroup(state) # <<>>
  /\ ungroupElements

\* a session with the mouse in which an image load resolves and the keyboard
\* shortcuts are pressed at any moment, a gesture in progress or not; the
\* buttons of the toolbar are clicked between gestures
NextInterleave ==
  \/ \E size \in ImageSizes : addImage(size)
  \/ groupShortcut
  \/ ungroupShortcut
  \/ BetweenGestures /\ deleteSelected
  \/ BetweenGestures /\ undo
  \/ BetweenGestures /\ redo
  \/ \E ptr \in MousePointers, id \in 1..MaxId, additive \in BOOLEAN :
        handleElementPointerDown(ptr, id, additive)
  \/ \E sample \in PointerSamples : pointermove(sample.delta, FALSE, sample.angle)
  \/ \E ptr \in MousePointers : stopInteractions(ptr)

SpecInterleave == InitFrom(SoloGroupDocument) /\ [][NextInterleave]_vars

\* the clipboard session over the stored group
SpecCopies == InitFrom(SoloGroupDocument) /\ [][NextPaste]_vars

\* a stored document of one text
TextDocument ==
  << [ id |-> 1, type |-> "text", shape |-> "none", x |-> 1870, y |-> 1942,
       width |-> 260, height |-> 80, rotation |-> 0, children |-> <<>> ] >>

\* the session of NextText while an image picked in the left panel is loading:
\* the load may resolve at any moment, in text editing too
NextEdit ==
  \/ NextText
  \/ \E size \in ImageSizes : addImage(size)

SpecEdit == InitFrom(TextDocument) /\ [][NextEdit]_vars

(* --------------------------- properties ------------------------------ *)
Last(seq) == seq[Len(seq)]

RECURSIVE UndoTimes(_, _)
UndoTimes(s, n) == IF n = 0 THEN s ELSE UndoTimes(Undo(s), n - 1)

RECURSIVE RedoTimes(_, _)
RedoTimes(s, n) == IF n = 0 THEN s ELSE RedoTimes(Redo(s), n - 1)

\* the snapshot the gesture in progress hands to mutateElements when it is released
GestureSnapshot ==
  IF rotateRef # Null THEN rotateRef.snapshot
  ELSE IF dragRef # Null THEN dragRef.historySnapshot
  ELSE IF resizeRef # Null THEN resizeRef.historySnapshot
  ELSE Undefined

\* the tree a recording mutation issued in this state pushes onto history
RecordedTree == IF GestureSnapshot = Undefined THEN state.elements ELSE GestureSnapshot

\* this step pushed one entry onto history
RecordsHistory == Len(state'.history) = Len(state.history) + 1

\* element trees at hand in this state, used as arguments of the reducer
TreesSeen ==
  { state.elements, <<>> }
    \cup { state.history[i] : i \in 1..Len(state.history) }
    \cup { state.redoStack[i] : i \in 1..Len(state.redoStack) }

\* selections at hand in this state
SelectionsSeen ==
  { state.selectedIds, <<>> } \cup { << id >> : id \in ElementIds(state.elements) }

\* the part of the store the no-op conditions speak of
StoreView ==
  << state.elements, state.selectedIds, state.history, state.redoStack, state.editingTextId >>

\* C1 as stated: a mutation that records history is undone by one undo to the
\* tree as it was just before that mutation (the law for n = 1)
C1_UndoReturnsTreeBeforeMutation ==
  [][ RecordsHistory => Undo(state').elements = state.elements ]_vars

\* n undos walk back through the recorded entries, n redos walk forward again
UndoRedoInverse ==
  \A n \in 1..Len(state.history) :
    LET depth == Len(state.history)
        undone == UndoTimes(state, n)
        redone == RedoTimes(undone, n)
    IN /\ undone.elements = state.history[depth - n + 1]
       /\ undone.history = SubSeq(state.history, 1, depth - n)
       /\ redone.elements = state.elements
       /\ redone.history = state.history
       /\ redone.redoStack = state.redoStack

\* C1 amended: each recording mutation pushes the snapshot its caller supplied,
\* or else the tree just before it, on top of an unchanged history; n undos
\* after n such mutations return the entry recorded by the first of them and
\* n redos after that return the tree after the last of them
C1_UndoRedoInverse ==
  /\ [] UndoRedoInverse
  /\ [][ RecordsHistory =>
           /\ Undo(state').elements = RecordedTree
           /\ Undo(state').history = state.history
           /\ Redo(Undo(state')).elements = state'.elements ]_vars

\* two undos have walked back over an add and a committed drag
C1_Witness ==
  /\ state.history = <<>>
  /\ Len(state.redoStack) = 2
  /\ Len(state.redoStack[1]) = 1
  /\ Len(state.redoStack[2]) = 1
  /\ state.redoStack[1][1].x # state.redoStack[2][1].x

\* C2: in one gesture the tree is captured at pointer-down, the pointer-moves
\* leave history and the captured tree alone, and pointer-up appends exactly
\* that tree for a rotate, a moved drag and a moved resize and nothing for an
\* unmoved drag or resize; one undo then restores the captured tree
C2_OneEntryPerGesture ==
  [][ /\ (pressed = {} /\ pressed' # {}) =>
            /\ state'.elements = state.elements
            /\ state'.history = state.history
            /\ GestureSnapshot' \in { state.elements, Undefined }
      /\ (pressed # {} /\ pressed' = pressed) =>
            /\ state'.history = state.history
            /\ GestureSnapshot' = GestureSnapshot
      /\ (pressed # {} /\ pressed' = {}) =>
            IF \/ rotateRef # Null
               \/ (dragRef # Null /\ dragRef.moved)
               \/ (resizeRef # Null /\ resizeRef.moved)
            THEN /\ state'.history = Append(state.history, GestureSnapshot)
                 /\ state'.elements = state.elements
                 /\ Undo(state').elements = GestureSnapshot
            ELSE state'.history = state.history ]_vars

\* a drag that moved the one element has been committed after the add
C2_Witness ==
  /\ pressed = {}
  /\ Len(state.history) = 2
  /\ Len(state.elements) = 1
  /\ Len(Last(state.history)) = 1
  /\ Last(state.history)[1].x # state.elements[1].x

\* C3: mutateElements with recordHistory = true appends one entry, the supplied
\* historySnapshot if there is one and the tree before the mutation otherwise
C3_RecordsSnapshotOrPriorTree ==
  \A updated \in TreesSeen, snapshot \in TreesSeen \cup { Undefined } :
    LET after == mutateElements(state, updated, TRUE, snapshot)
    IN /\ after.elements = updated
       /\ after.history = Append(state.history,
                                 IF snapshot = Undefined THEN state.elements ELSE snapshot)

\* history holds an entry recorded without a snapshot (the add) and one recorded
\* from the snapshot of a rotate
C3_Witness ==
  /\ pressed = {}
  /\ Len(state.history) = 2
  /\ state.history[1] = <<>>
  /\ Len(state.elements) = 1
  /\ state.elements[1].rotation # 0
  /\ Last(state.history)[1].rotation = 0

\* C4: a mutation that records history leaves redoStack empty; the only other
\* step that lengthens history is redo
C4_RecordingClearsRedo ==
  /\ [] (\A updated \in TreesSeen, snapshot \in TreesSeen \cup { Undefined } :
           mutateElements(state, updated, TRUE, snapshot).redoStack = <<>>)
  /\ [][ RecordsHistory =>
           \/ state'.redoStack = <<>>
           \/ state.redoStack # <<>> /\ state' = SelectionSyncEffect(Redo(state)) ]_vars

\* an element was added, the add undone, and another element added
C4_Witness ==
  /\ nextId = 2
  /\ Len(state.elements) = 1
  /\ state.elements[1].id = 2
  /\ state.history = << <<>> >>
  /\ state.redoStack = <<>>

\* the reducer cases of C5 applied to the current store
ReducerFrame ==
  /\ \A updated \in TreesSeen, snapshot \in TreesSeen \cup { Undefined } :
       LET after == mutateElements(state, updated, FALSE, snapshot)
       IN after.history = state.history /\ after.redoStack = state.redoStack
  /\ \A payload \in SelectionsSeen, additive \in BOOLEAN :
       LET after == SetSelection(state, payload, additive)
       IN /\ after.elements = state.elements
          /\ after.history = state.history
          /\ after.redoStack = state.redoStack
  /\ LET after == ClearSelection(state)
     IN /\ after.elements = state.elements
        /\ after.history = state.history
        /\ after.redoStack = state.redoStack

\* C5: the intermediate mutations of the pointer-moves leave history and
\* redoStack unchanged, and the selection changes of a pointer-down and of a
\* marquee release leave elements, history and redoStack unchanged
C5_IntermediateAndSelectionFrame ==
  /\ [] ReducerFrame
  /\ [][ /\ (pressed # {} /\ pressed' = pressed) =>
               /\ state'.history = state.history
               /\ state'.redoStack = state.redoStack
         /\ (pressed = {} /\ pressed' # {}) \/ (isSelectedRef /\ ~isSelectedRef') =>
               /\ state'.elements = state.elements
               /\ state'.history = state.history
               /\ state'.redoStack = state.redoStack ]_vars

\* a drag is under way and has moved, with an undone tree waiting on redoStack
C5_Witness ==
  /\ dragRef # Null
  /\ dragRef.moved
  /\ state.elements # dragRef.historySnapshot
  /\ state.redoStack # <<>>
  /\ state.history = <<>>

\* the UNDO and REDO cases applied to the current store
UndoRedoShape ==
  /\ state.history # <<>> =>
       LET after == Undo(state)
       IN /\ after.elements = Last(state.history)
          /\ after.history = SubSeq(state.history, 1, Len(state.history) - 1)
          /\ after.redoStack = << state.elements >> \o state.redoStack
          /\ after.selectedIds = <<>>
          /\ Len(after.history) = Len(state.history) - 1
          /\ Len(after.redoStack) = Len(state.redoStack) + 1
  /\ state.redoStack # <<>> =>
       LET after == Redo(state)
       IN /\ after.elements = Head(state.redoStack)
          /\ after.redoStack = Tail(state.redoStack)
          /\ after.history = Append(state.history, state.elements)
          /\ after.selectedIds = <<>>
          /\ Len(after.history) = Len(state.history) + 1
          /\ Len(after.redoStack) = Len(state.redoStack) - 1

\* C6: undo pops the last history entry into elements, pushes the tree before
\* it onto the front of redoStack and empties the selection; redo does the
\* same from the front of redoStack onto history; the depths change by one
C6_UndoRedoSemantics ==
  /\ [] UndoRedoShape
  /\ [][ /\ Len(state'.history) = Len(state.history) - 1 =>
               /\ state'.elements = Last(state.history)
               /\ state'.redoStack = << state.elements >> \o state.redoStack
               /\ state'.selectedIds = <<>>
         /\ (Len(state'.redoStack) = Len(state.redoStack) - 1 /\ state'.redoStack # <<>>) =>
               /\ state'.elements = Head(state.redoStack)
               /\ state'.history = Append(state.history, state.elements)
               /\ state'.selectedIds = <<>> ]_vars

\* of two recorded mutations one has been undone
C6_Witness ==
  /\ Len(state.history) = 1
  /\ Len(state.redoStack) = 1
  /\ state.selectedIds = <<>>
  /\ pressed = {}

\* the selection is exactly one element, a group
OneGroupSelected ==
  /\ Len(state.selectedIds) = 1
  /\ \E i \in 1..Len(state.elements) :
       state.elements[i].id = state.selectedIds[1] /\ state.elements[i].type = "group"

\* C7: undo on an empty history, redo on an empty redoStack, paste with an
\* empty clipboard, groupElements with fewer than two selected ids and
\* ungroupElements without exactly one selected group can be called and leave
\* elements, selectedIds, history, redoStack and editingTextId unchanged
C7_NoOps ==
  /\ state.history = <<>> => (ENABLED undo) /\ ~ENABLED <<undo>>_StoreView
  /\ state.redoStack = <<>> => (ENABLED redo) /\ ~ENABLED <<redo>>_StoreView
  /\ clipboardRef = <<>> => (ENABLED paste) /\ ~ENABLED <<paste>>_StoreView
  /\ Len(state.selectedIds) < 2 =>
       (ENABLED groupElements) /\ ~ENABLED <<groupElements>>_StoreView
  /\ ~OneGroupSelected =>
       (ENABLED ungroupElements) /\ ~ENABLED <<ungroupElements>>_StoreView

\* everything has been undone and nothing was copied or selected: undo, paste,
\* groupElements and ungroupElements are all no-ops here
C7_Witness ==
  /\ state.history = <<>>
  /\ state.redoStack # <<>>
  /\ clipboardRef = <<>>
  /\ state.elements = <<>>
  /\ state.interactionMode = "pan"

\* the gestures that hold a record
ActiveGestures ==
  { g \in { "drag", "resize", "rotate", "marquee", "pan" } :
      \/ g = "drag" /\ dragRef # Null
      \/ g = "resize" /\ resizeRef # Null
      \/ g = "rotate" /\ rotateRef # Null
      \/ g = "marquee" /\ (isSelectedRef \/ selectionStartRef # Null)
      \/ g = "pan" /\ panRef # Null }

\* C8: at most one of dragRef, resizeRef, rotateRef, the marquee and panRef is
\* active in every reachable state
C8_GesturesExclusive == Cardinality(ActiveGestures) <= 1

\* C9: after pointer-up or pointer-up-outside dragRef, resizeRef, rotateRef and
\* panRef are null, the marquee is inactive and its box destroyed, and no
\* guides are left
C9_IdleAfterRelease ==
  [][ (pressed' # pressed /\ pressed' \subseteq pressed) =>
        /\ dragRef' = Null
        /\ resizeRef' = Null
        /\ rotateRef' = Null
        /\ panRef' = Null
        /\ ~isSelectedRef'
        /\ selectionStartRef' = Null
        /\ ~selectionBoxRef'
        /\ currentGuidesRef' = <<>> ]_vars

\* the rectangle was dragged onto the guide of the text below it and released
C9_Witness ==
  /\ pressed = {}
  /\ ActiveGestures = {}
  /\ currentGuidesRef = <<>>
  /\ ~selectionBoxRef
  /\ Len(state.history) = 1
  /\ state.elements[1].id = 1
  /\ state.elements[1].y = 1802

\* C10 as stated: without a modifier the selection becomes the pressed element
\* alone unless it is already the sole selection
C10_ReplacedUnlessSole ==
  \A elementId \in ElementIds(state.elements) :
    PointerDownSelection(state.selectedIds, elementId, FALSE) =
      IF state.selectedIds = << elementId >> THEN state.selectedIds ELSE << elementId >>

\* the selection after a press on elementId
ExpectedSelection(elementId, additive) ==
  IF Includes(state.selectedIds, elementId) THEN state.selectedIds
  ELSE IF additive THEN Append(state.selectedIds, elementId)
  ELSE << elementId >>

\* C10 amended: with a modifier the element is unioned into the selection;
\* without one the selection becomes that element alone unless the element is
\* already selected, and then the selection is kept as it is; the drag that
\* starts carries that selection
C10_ReplacedUnlessSelected ==
  /\ [] (\A elementId \in ElementIds(state.elements), additive \in BOOLEAN :
           PointerDownSelection(state.selectedIds, elementId, additive) =
             ExpectedSelection(elementId, additive))
  /\ [][ (dragRef = Null /\ dragRef' # Null) =>
           /\ \E elementId \in ElementIds(state.elements), additive \in BOOLEAN :
                state'.selectedIds = ExpectedSelection(elementId, additive)
           /\ dragRef'.ids = state'.selectedIds ]_vars

\* an element of a selection of two has been pressed and both stay selected
C10_Witness ==
  /\ state.selectedIds = << 1, 2 >>
  /\ dragRef # Null
  /\ dragRef.ids = << 1, 2 >>
  /\ ~dragRef.moved

\* a pointer-move is handled by the drag branch
Dragging ==
  /\ dragRef # Null
  /\ resizeRef = Null
  /\ rotateRef = Null
  /\ ~(isSelectedRef /\ selectionStartRef # Null /\ selectionBoxRef)

\* pointer travels since the press that the drag is probed with
DragDeltas == { [x |-> dx, y |-> dy] : dx \in { -6, 0, 6 }, dy \in { 0, 3 } }

\* C11: after a pointer-move handled while dragging, every dragged element is
\* at its pre-drag snapshot position plus the corrected delta of the current
\* pointer position, whatever the earlier pointer-moves were
C11_DragFollowsPointer ==
  Dragging =>
    \A delta \in DragDeltas :
      LET after == dragMove(dragRef, delta)
      IN \A i \in 1..Len(after.store.elements) :
           LET el == after.store.elements[i]
               base == SnapshotOr(dragRef.snapshot, el)
           IN Includes(dragRef.ids, el.id) =>
                el.x = base.x + after.snap.dx /\ el.y = base.y + after.snap.dy

\* B of the document `stored` is being dragged and nothing else
DraggingB(stored) ==
  /\ Dragging
  /\ dragRef.historySnapshot = stored
  /\ dragRef.ids = << 2 >>

\* x of B after the pointer-move that takes the pointer 6 to the left of the press
BAfterSixLeft == ElementById(dragMove(dragRef, [x |-> -6, y |-> 0]).store.elements, 2).x

\* C12 as stated: with A at (0,0,100,100) and B at (205,0,100,100), dragging B
\* left by 6 leaves B.x = 100
C12_ScenarioSnapsTo100 == DraggingB(ScenarioDocument) => BAfterSixLeft = 100

\* C12 amended: in that scenario no line of A is within 5 of a point of B, so
\* B.x = 199; with B at (105,0,100,100) the left edge of B is 1 away from the
\* right edge of A after the move and B.x = 100
C12_ScenarioNoSnap ==
  /\ DraggingB(ScenarioDocument) => BAfterSixLeft = 199
  /\ DraggingB(NearDocument) => BAfterSixLeft = 100

\* B of the near document has been dragged 6 to the left and sits on A's right edge
C12_Witness ==
  /\ DraggingB(NearDocument)
  /\ dragRef.moved
  /\ ElementById(state.elements, 2).x = 100
  /\ currentGuidesRef # <<>>

\* raw deltas and thresholds that calculateSnap is probed with
ProbeDxs == (-8..8) \cup (-110..-100) \cup (-210..-196)
ProbeDys == { 0, 3, 7 }
ProbeThresholds == { 1, 5 }

\* the elements the drag moves, as the drag branch collects them
MovingElements == Filter(state.elements, LAMBDA el : Includes(dragRef.ids, el.id))

\* coordinates of the moving points taken from the pre-drag snapshot, and values
\* of the static lines, for one axis
MovingCoordinates(axis) ==
  LET points == Flatten(Map(MovingElements,
                            LAMBDA el : getSnapPoints(SnapshotOr(dragRef.snapshot, el))))
  IN { IF axis = "x" THEN points[i].x ELSE points[i].y : i \in 1..Len(points) }

StaticLineValues(axis) ==
  LET others == Filter(state.elements, LAMBDA el : ~Includes(dragRef.ids, el.id))
      lines == Flatten(Map(others, getSnapLines))
  IN { lines[i].value : i \in { j \in 1..Len(lines) :
                                  lines[j].type = (IF axis = "x" THEN "vertical" ELSE "horizontal") } }

\* the corrected delta is right for one axis: on the line of a closest pair
\* within the threshold, or the raw delta when there is none
AxisSnapped(axis, raw, corrected, threshold) ==
  LET pairs == { pl \in MovingCoordinates(axis) \X StaticLineValues(axis) :
                   Abs(pl[1] + raw - pl[2]) <= threshold }
  IN IF pairs = {} THEN corrected = raw
     ELSE /\ \E pl \in pairs :
               /\ \A other \in pairs : Abs(pl[1] + raw - pl[2]) <= Abs(other[1] + raw - other[2])
               /\ corrected = raw + (pl[2] - pl[1] - raw)
               /\ pl[1] + corrected = pl[2]
          /\ Abs(corrected - raw) <= threshold

\* C13: calculateSnap corrects each axis on its own: to the line of the closest
\* (moving point, static line) pair within the threshold, else not at all, so
\* the corrected delta is never more than the threshold away from the raw one
C13_ClosestPairPerAxis ==
  Dragging =>
    \A dx \in ProbeDxs, dy \in ProbeDys, threshold \in ProbeThresholds :
      LET snap == calculateSnap(MovingElements, state.elements, dx, dy, dragRef.snapshot,
                                threshold)
      IN /\ AxisSnapped("x", dx, snap.dx, threshold)
         /\ AxisSnapped("y", dy, snap.dy, threshold)

\* A of the near document is dragged: at rest its right edge is 5 from B's left
\* edge and the drag has put it there
C13_Witness ==
  /\ Dragging
  /\ dragRef.ids = << 1 >>
  /\ dragRef.historySnapshot = NearDocument
  /\ dragRef.moved
  /\ ElementById(state.elements, 1).x = 5

\* raw x deltas that put a left or right edge of a moving element exactly on a
\* left or right edge line of a static element
AlignedDxs ==
  LET others == Filter(state.elements, LAMBDA el : ~Includes(dragRef.ids, el.id))
      bases == Map(MovingElements, LAMBDA el : SnapshotOr(dragRef.snapshot, el))
      movingEdges == UNION { { bases[i].x, bases[i].x + bases[i].width } : i \in 1..Len(bases) }
      staticEdges == UNION { { others[i].x, others[i].x + others[i].width } : i \in 1..Len(others) }
  IN { line - edge : edge \in movingEdges, line \in staticEdges }

\* nudges smaller than the threshold of the drag branch
Nudges == { e \in -SnapThresholdPixels..SnapThresholdPixels : Abs(e) < SnapThresholdPixels }

\* the corrected x delta of the drag branch's calculateSnap call for a raw x delta
SnappedDx(raw) ==
  calculateSnap(MovingElements, state.elements, raw, 0, dragRef.snapshot,
                (SnapThresholdPixels * ZoomUnit) \div state.zoom).dx

\* the raw x deltas that align some (moving point, static line) pair, centres included
PairOffsets == { line - point : point \in MovingCoordinates("x"), line \in StaticLineValues("x") }

\* C14 as stated: once an edge is exactly on a static edge line, every nudge
\* smaller than the threshold gives the same corrected delta, whatever the
\* static elements are
C14_SnapSticks ==
  Dragging => \A d \in AlignedDxs, e \in Nudges : SnappedDx(d + e) = SnappedDx(d)

\* C14, amended: the nudged delta gives the same corrected delta as long as no
\* pair of another offset is as close to the nudged position as the aligned
\* one; when another pair is strictly closer the corrected delta is that pair's
C14_SnapSticksToClosest ==
  Dragging =>
    \A d \in AlignedDxs, e \in Nudges :
      LET rivals == { o \in PairOffsets : o # d /\ Abs(o - (d + e)) <= Abs(e) }
      IN /\ SnappedDx(d) = d
         /\ rivals = {} => SnappedDx(d + e) = d
         /\ (\E o \in rivals : Abs(o - (d + e)) < Abs(e)) =>
              /\ SnappedDx(d + e) # d
              /\ SnappedDx(d + e) \in rivals

\* a drag has been pulled onto an aligned delta from a raw delta one nudge away
\* from it, and the same document has a nudge that another pair wins
C14_Witness ==
  /\ Dragging
  /\ dragRef.moved
  /\ currentGuidesRef # << >>
  /\ \E d \in AlignedDxs, e \in Nudges \ { 0 } :
       /\ \A i \in 1..Len(MovingElements) :
            MovingElements[i].x = SnapshotOr(dragRef.snapshot, MovingElements[i]).x + d
       /\ SnappedDx(d + e) = d
       /\ \E sample \in SnapSamples : sample.delta.x = d + e

\* the narrow document is being dragged and a nudge off an aligned edge is won
\* by the centre lines
C14_RivalWitness ==
  /\ Dragging
  /\ \E d \in AlignedDxs, e \in Nudges : SnappedDx(d + e) \notin { d, d + e }

\* a resize gesture is in progress
Resizing == resizeRef # Null

AllDirections == { "n", "s", "e", "w", "ne", "nw", "se", "sw" }

\* pointer travels that resize is probed with: past the opposite edge, onto a
\* neighbour's line, and away from it
ResizeProbes == { [x |-> dx, y |-> dy] : dx \in { -400, 3, 400 }, dy \in { -150, 250 } }

\* the elements of the store that the pointer-move of the gesture in progress
\* leaves, had the handle `direction` been pressed and the pointer gone `delta`
ResizedElements(direction, delta) ==
  LET after == performResize([resizeRef EXCEPT !.direction = direction], delta.x, delta.y)
  IN Filter(after.store.elements, LAMBDA el : Includes(resizeRef.ids, el.id))

NonNegativeSize(el) == el.width >= MIN_ELEMENT_SIZE /\ el.height >= MIN_ELEMENT_SIZE

FlooredWithChildren(el) ==
  /\ NonNegativeSize(el)
  /\ \A k \in 1..Len(el.children) : NonNegativeSize(el.children[k])

\* C15: after every pointer-move of a resize gesture, whatever the direction,
\* the pointer delta and the snap, every resized element and every direct
\* child of a resized group has width >= 0 and height >= 0
C15_ResizeFloor ==
  Resizing =>
    /\ \A direction \in AllDirections, delta \in ResizeProbes :
         LET resized == ResizedElements(direction, delta)
         IN \A i \in 1..Len(resized) : FlooredWithChildren(resized[i])
    /\ resizeRef.moved =>
         \A i \in 1..Len(state.elements) :
           Includes(resizeRef.ids, state.elements[i].id) => FlooredWithChildren(state.elements[i])

\* a group has been resized past its right edge, the snap has put the new
\* left edge beyond it, and the group and its child are floored at width 0
C15_Witness ==
  /\ Resizing
  /\ resizeRef.moved
  /\ resizeRef.direction = "w"
  /\ currentGuidesRef # << >>
  /\ \E i \in 1..Len(state.elements) :
       LET el == state.elements[i]
       IN /\ Includes(resizeRef.ids, el.id)
          /\ el.type = "group"
          /\ el.width = 0
          /\ el.x > resizeRef.startBounds.x + resizeRef.startBounds.width
          /\ el.children # << >>
          /\ el.children[1].width = 0

\* the elements being resized and the lines of the others
ResizingElements == Filter(state.elements, LAMBDA el : Includes(resizeRef.ids, el.id))

StaticLines(type) ==
  LET others == Filter(state.elements, LAMBDA el : ~Includes(resizeRef.ids, el.id))
      lines == Flatten(Map(others, getSnapLines))
  IN { lines[i].value : i \in { j \in 1..Len(lines) : lines[j].type = type } }

\* input boxes for calculateResizeSnap: the boxes the gesture computes for the
\* probed pointer travels, and boxes with an edge 3 off a static line
SnapInputBounds(direction) ==
  { ResizedBounds(resizeRef.startBounds, direction, delta.x, delta.y) : delta \in ResizeProbes }
  \cup
  { [x |-> v - place[1], y |-> h - place[1], width |-> place[2], height |-> place[2]] :
      v \in { w \in StaticLines("vertical") :
                \A u \in StaticLines("vertical") : w <= u \/ \A t \in StaticLines("vertical") : t <= w },
      h \in { w \in StaticLines("horizontal") : \A u \in StaticLines("horizontal") : w <= u },
      place \in { << 3, 0 >>, << 97, 100 >>, << 50, 20 >> } }

\* C16: calculateResizeSnap moves only the edges named by the direction: the
\* left edge only for w, the right edge only for e, the top edge only for n,
\* the bottom edge only for s
C16_OnlyNamedEdgesMove ==
  Resizing =>
    \A direction \in AllDirections :
      \A newBounds \in SnapInputBounds(direction) :
        LET snapped == calculateResizeSnap(ResizingElements, state.elements, newBounds,
                                           direction, (SnapThresholdPixels * ZoomUnit) \div state.zoom).snappedBounds
        IN /\ ~DirHas(direction, "w") => snapped.x = newBounds.x
           /\ ~DirHas(direction, "e") => snapped.x + snapped.width = newBounds.x + newBounds.width
           /\ ~DirHas(direction, "n") => snapped.y = newBounds.y
           /\ ~DirHas(direction, "s") => snapped.y + snapped.height = newBounds.y + newBounds.height

\* the se handle has been dragged and the right edge snapped to a line: the
\* resized element keeps its corner and the guide is shown
C16_Witness ==
  /\ Resizing
  /\ resizeRef.moved
  /\ resizeRef.direction = "se"
  /\ Len(resizeRef.ids) = 1
  /\ \E i \in 1..Len(currentGuidesRef) :
       /\ currentGuidesRef[i].type = "vertical"
       /\ \E k \in 1..Len(state.elements) :
            LET el == state.elements[k]
            IN /\ Includes(resizeRef.ids, el.id)
               /\ el.x = resizeRef.startBounds.x
               /\ el.y = resizeRef.startBounds.y
               /\ el.x + el.width = currentGuidesRef[i].coor
               /\ el.width # resizeRef.startBounds.width

\* the box a pointer-move resizes to, computed from what the gesture recorded
\* at its start only: the start box, and the tree of the start for the snap
BoundsFromStart(direction, delta) ==
  calculateResizeSnap(resizeRef.startElements, resizeRef.historySnapshot,
                      ResizedBounds(resizeRef.startBounds, direction, delta.x, delta.y),
                      direction, (SnapThresholdPixels * ZoomUnit) \div state.zoom).snappedBounds

\* el is where its start snapshot, scaled about the start box, belongs
Proportional(el, newBounds) ==
  LET startBounds == resizeRef.startBounds
      start == ElementById(resizeRef.startElements, el.id)
      wide == startBounds.width > 0
      high == startBounds.height > 0
      ScaleX(v) == IF wide THEN (v * newBounds.width) \div startBounds.width ELSE v
      ScaleY(v) == IF high THEN (v * newBounds.height) \div startBounds.height ELSE v
  IN /\ el.x = newBounds.x + ScaleX(start.x - startBounds.x)
     /\ el.y = newBounds.y + ScaleY(start.y - startBounds.y)
     /\ el.width = (IF ScaleX(start.width) < 0 THEN 0 ELSE ScaleX(start.width))
     /\ el.height = (IF ScaleY(start.height) < 0 THEN 0 ELSE ScaleY(start.height))

\* C17: after a pointer-move every resized element is its start snapshot
\* scaled about the start bounding box by new size / start size (1 when the
\* start size is 0), sizes floored at 0; nothing but the snapshots of the
\* gesture's start and the pointer enters the result
C17_ProportionalToStartBox ==
  Resizing =>
    /\ \A direction \in AllDirections, delta \in ResizeProbes :
         LET resized == ResizedElements(direction, delta)
         IN \A i \in 1..Len(resized) : Proportional(resized[i], BoundsFromStart(direction, delta))
    /\ resizeRef.moved =>
         \E sample \in ResizeSamples :
           \A i \in 1..Len(ResizingElements) :
             Proportional(ResizingElements[i], BoundsFromStart(resizeRef.direction, sample.delta))

\* two elements are being resized together from the se handle: the box is
\* twice as wide, and the second one is twice as far from the corner of the
\* box and twice as wide as at the start
C17_Witness ==
  /\ Resizing
  /\ resizeRef.moved
  /\ resizeRef.direction = "se"
  /\ Len(resizeRef.startElements) = 2
  /\ \E i \in 1..Len(ResizingElements) :
       LET el == ResizingElements[i]
           start == ElementById(resizeRef.startElements, el.id)
       IN /\ start.x > resizeRef.startBounds.x
          /\ el.x - resizeRef.startBounds.x = 2 * (start.x - resizeRef.startBounds.x)
          /\ el.width = 2 * start.width
          /\ 2 * el.height = start.height

\* every node of the forest `after` is the node of `start` at the same place
\* with its relative x, y, width and height scaled by num/den per axis (sizes
\* floored at 0), and so are its children, to any depth
RECURSIVE DescendantsScaled(_, _, _, _)
DescendantsScaled(after, start, newBounds, startBounds) ==
  LET ScaleX(v) == IF startBounds.width > 0
                   THEN (v * newBounds.width) \div startBounds.width ELSE v
      ScaleY(v) == IF startBounds.height > 0
                   THEN (v * newBounds.height) \div startBounds.height ELSE v
  IN /\ Len(after) = Len(start)
     /\ \A k \in 1..Len(after) :
          /\ after[k].x = ScaleX(start[k].x)
          /\ after[k].y = ScaleY(start[k].y)
          /\ after[k].width = Max2(0, ScaleX(start[k].width))
          /\ after[k].height = Max2(0, ScaleY(start[k].height))
          /\ DescendantsScaled(after[k].children, start[k].children, newBounds, startBounds)

\* C18: after a resize pointer-move every descendant of a resized group, at
\* any nesting depth, has its relative x, y, width and height multiplied by
\* the scale factors of the gesture
C18_ScaleReachesEveryDescendant ==
  (Resizing /\ resizeRef.moved) =>
    \E sample \in ResizeSamples :
      \A i \in 1..Len(ResizingElements) :
        LET el == ResizingElements[i]
        IN el.type = "group" =>
             DescendantsScaled(el.children,
                               ElementById(resizeRef.startElements, el.id).children,
                               BoundsFromStart(resizeRef.direction, sample.delta),
                               resizeRef.startBounds)

\* the same for the direct children only, which is as far as the updater goes
C18_ScaleReachesChildren ==
  (Resizing /\ resizeRef.moved) =>
    \E sample \in ResizeSamples :
      \A i \in 1..Len(ResizingElements) :
        LET el == ResizingElements[i]
            start == ElementById(resizeRef.startElements, el.id)
            Leaves(children) == Map(children, LAMBDA child : [child EXCEPT !.children = << >>])
        IN el.type = "group" =>
             /\ DescendantsScaled(Leaves(el.children), Leaves(start.children),
                                  BoundsFromStart(resizeRef.direction, sample.delta),
                                  resizeRef.startBounds)
             /\ \A k \in 1..Len(el.children) : el.children[k].children = start.children[k].children

\* the selections of two or more top-level elements, in the order of the tree
GroupSelections ==
  { Map(Filter(state.elements, LAMBDA el : el.id \in chosen), LAMBDA el : el.id) :
      chosen \in { c \in SUBSET ElementIds(state.elements) : Cardinality(c) >= 2 } }

\* the store groupElements would leave, the selection being `selection`
GroupedFrom(selection) == GroupSelected([state EXCEPT !.selectedIds = selection], nextId + 1)

\* group is the union box of members and holds them as relative copies
GroupOfMembers(group, members) ==
  /\ members # << >>
  /\ \A i \in 1..Len(members) :
       /\ group.x <= members[i].x
       /\ group.y <= members[i].y
       /\ members[i].x + members[i].width <= group.x + group.width
       /\ members[i].y + members[i].height <= group.y + group.height
  /\ \E i \in 1..Len(members) : group.x = members[i].x
  /\ \E i \in 1..Len(members) : group.y = members[i].y
  /\ \E i \in 1..Len(members) : group.x + group.width = members[i].x + members[i].width
  /\ \E i \in 1..Len(members) : group.y + group.height = members[i].y + members[i].height
  /\ Len(group.children) = Len(members)
  /\ \A i \in 1..Len(members) :
       /\ group.children[i].x = members[i].x - group.x
       /\ group.children[i].y = members[i].y - group.y
       /\ [group.children[i] EXCEPT !.x = members[i].x, !.y = members[i].y] = members[i]

\* C19: grouping two or more selected top-level elements makes a group whose
\* box is the union of the members' stored unrotated rectangles and whose
\* children are the members with x, y made relative to the group and every
\* other field unchanged
C19_GroupIsUnionOfRelativeCopies ==
  \A selection \in GroupSelections :
    LET after == GroupedFrom(selection)
        members == Filter(state.elements, LAMBDA el : Includes(selection, el.id))
    IN GroupOfMembers(Last(after.elements), members)

\* the selection of two shapes, one of them rotated, has just been grouped:
\* the new group is on top, and it is the union box of the two shapes as the
\* history entry holds them
C19_Witness ==
  /\ state.elements # << >>
  /\ Len(state.history) = 1
  /\ state.redoStack = << >>
  /\ Last(state.elements).id = nextId
  /\ Last(state.elements).type = "group"
  /\ \E k \in 1..Len(Last(state.elements).children) :
       Last(state.elements).children[k].rotation # 0
  /\ GroupOfMembers(Last(state.elements),
                    Filter(Last(state.history),
                           LAMBDA el : \E k \in 1..Len(Last(state.elements).children) :
                                         Last(state.elements).children[k].id = el.id))

\* grouping `selection` in the current state removes the selected elements,
\* keeps the others in their order, puts the one new group last, selects it
\* alone and records one history entry
GroupedInPlace(before, selection, after, groupId) ==
  LET others == SelectSeq(before.elements, LAMBDA el : ~Includes(selection, el.id))
  IN /\ Len(after.elements) = Len(others) + 1
     /\ SubSeq(after.elements, 1, Len(others)) = others
     /\ Last(after.elements).id = groupId
     /\ Last(after.elements).type = "group"
     /\ \A i \in 1..Len(after.elements) : ~Includes(selection, after.elements[i].id)
     /\ after.selectedIds = << groupId >>
     /\ after.history = Append(before.history, before.elements)

C20_EveryGrouping ==
  \A selection \in GroupSelections :
    GroupedInPlace(state, selection, GroupedFrom(selection), nextId + 1)

C20_GroupStep ==
  (Len(state.selectedIds) >= 2 /\ nextId' # nextId) =>
    GroupedInPlace(state, state.selectedIds, state', nextId')

\* C20: groupElements removes the selected elements from the top level, keeps
\* the relative order of all the others, appends the one new group as the last
\* element, makes it the sole selection and records exactly one history entry
C20_GroupReplacesSelection == []C20_EveryGrouping /\ [][C20_GroupStep]_vars

\* two of three elements have just been grouped: the third one is first, the
\* group is last and alone in the selection, and undo has one entry, the tree
\* of the three
C20_Witness ==
  /\ Len(state.elements) = 2
  /\ state.elements[1].type = "shape"
  /\ state.elements[2].type = "group"
  /\ state.elements[2].id = nextId
  /\ Len(state.elements[2].children) = 2
  /\ state.selectedIds = << nextId >>
  /\ state.history = << TrioDocument >>

\* the top-level groups of the tree
TopLevelGroups == Filter(state.elements, LAMBDA el : el.type = "group")

\* the store ungroupElements would leave, `group` being the sole selection
UngroupedFrom(group) ==
  UngroupSelected([state EXCEPT !.selectedIds = << group.id >>], group, nextId).store

\* the elements a step has put at the end of the top-level list of `after`,
\* behind the ones that `before` had beside `group`
Produced(before, group, after) ==
  LET others == SelectSeq(before.elements, LAMBDA el : el.id # group.id)
  IN SubSeq(after.elements, Len(others) + 1, Len(after.elements))

\* an ungroup step of ungroupElements: one group is selected and ids are handed out
UngroupStep ==
  /\ Len(state.selectedIds) = 1
  /\ FindSelectedGroup(state) # << >>
  /\ nextId' # nextId

\* the leaves of a forest of children in depth-first order, each at its
\* position on the canvas: its own x, y plus those of all the groups around it
RECURSIVE AbsoluteLeaves(_, _, _)
AbsoluteLeaves(children, parentX, parentY) ==
  IF children = << >> THEN << >>
  ELSE LET child == Head(children)
       IN (IF child.type = "group"
           THEN AbsoluteLeaves(child.children, parentX + child.x, parentY + child.y)
           ELSE << [child EXCEPT !.x = parentX + child.x, !.y = parentY + child.y] >>)
          \o AbsoluteLeaves(Tail(children), parentX, parentY)

WithoutId(el) == [el EXCEPT !.id = NoId]

\* every nested group among the children of `group` is a top-level group of
\* `after`, under a new id, with its children as they were
NestedGroupsSurvive(before, group, after) ==
  \A k \in 1..Len(group.children) :
    group.children[k].type = "group" =>
      \E i \in 1..Len(after.elements) :
        /\ after.elements[i].type = "group"
        /\ after.elements[i].id \notin ElementIds(before.elements)
        /\ after.elements[i].children = group.children[k].children

DissolvedInDepth(before, group, after, next) ==
  LET produced == Produced(before, group, after)
      leaves == AbsoluteLeaves(group.children, group.x, group.y)
  IN /\ Len(produced) = Len(leaves)
     /\ \A k \in 1..Len(produced) :
          /\ produced[k].type # "group"
          /\ WithoutId(produced[k]) = WithoutId(leaves[k])
          /\ produced[k].id > next
          /\ \A j \in 1..Len(produced) : produced[j].id = produced[k].id => j = k
     /\ \A i \in 1..Len(after.elements) : after.elements[i].id # group.id

C21_EveryUngroup ==
  \A i \in 1..Len(TopLevelGroups) :
    DissolvedInDepth(state, TopLevelGroups[i], UngroupedFrom(TopLevelGroups[i]), nextId)

C21_DeepStep ==
  UngroupStep => DissolvedInDepth(state, FindSelectedGroup(state)[1], state', nextId)

SelectionIsProduced(before, group, after) ==
  /\ { after.selectedIds[i] : i \in 1..Len(after.selectedIds) }
       = ElementIds(Produced(before, group, after))
  /\ \A i \in 1..Len(after.selectedIds) : after.selectedIds[i] \in ElementIds(after.elements)

\* C22: after ungroupElements the selection is exactly the ids of the elements
\* that the ungroup added to the top level: every selected id names a
\* top-level element and every produced element is selected
C22_SelectionIsProduced ==
  [][UngroupStep => SelectionIsProduced(state, FindSelectedGroup(state)[1], state')]_vars

\* the same for groups that hold no group, where every id drawn goes to an
\* element that is added
C22_SelectionIsProducedOfFlat ==
  [][(UngroupStep /\ \A k \in 1..Len(FindSelectedGroup(state)[1].children) :
                       FindSelectedGroup(state)[1].children[k].type # "group")
       => SelectionIsProduced(state, FindSelectedGroup(state)[1], state')]_vars

\* the store after groupElements on `selection` and ungroupElements right after
RoundTripFrom(selection) ==
  LET grouped == GroupedFrom(selection)
  IN UngroupSelected(grouped, Last(grouped.elements), nextId + 1).store

Geometry(el) ==
  [x |-> el.x, y |-> el.y, width |-> el.width, height |-> el.height, rotation |-> el.rotation]

\* the elements of `tree` outside `selection` are the first ones of `after`,
\* unchanged, and what follows them corresponds one-to-one to the selected ones
\* with the same geometry
OneToOne(tree, selection, after) ==
  LET members == SelectSeq(tree, LAMBDA el : Includes(selection, el.id))
      others == SelectSeq(tree, LAMBDA el : ~Includes(selection, el.id))
      produced == SubSeq(after, Len(others) + 1, Len(after))
  IN /\ SubSeq(after, 1, Len(others)) = others
     /\ Len(produced) = Len(members)
     /\ \E f \in [1..Len(members) -> 1..Len(members)] :
          /\ \A i, j \in 1..Len(members) : f[i] = f[j] => i = j
          /\ \A i \in 1..Len(members) : Geometry(produced[f[i]]) = Geometry(members[i])

LeavesRestored(tree, selection, after) ==
  LET members == SelectSeq(tree, LAMBDA el : Includes(selection, el.id))
      others == SelectSeq(tree, LAMBDA el : ~Includes(selection, el.id))
      produced == SubSeq(after, Len(others) + 1, Len(after))
      leaves == AbsoluteLeaves(members, 0, 0)
  IN /\ SubSeq(after, 1, Len(others)) = others
     /\ Len(produced) = Len(leaves)
     /\ \A k \in 1..Len(leaves) :
          /\ WithoutId(produced[k]) = WithoutId(leaves[k])
          /\ produced[k].id \notin ElementIds(tree)
     /\ (\A i \in 1..Len(members) : members[i].type # "group") =>
          /\ OneToOne(tree, selection, after)
          /\ \A i \in 1..Len(members) : Geometry(produced[i]) = Geometry(members[i])

C23_EveryRoundTrip ==
  \A selection \in GroupSelections :
    LeavesRestored(state.elements, selection, RoundTripFrom(selection).elements)

\* the group about to be dissolved is the one groupElements has just made of
\* elements of the last history entry
JustGrouped ==
  /\ state.history # << >>
  /\ state.elements # << >>
  /\ Last(state.elements).id = nextId
  /\ state.selectedIds = << nextId >>
  /\ Last(state.elements).type = "group"
  /\ \A k \in 1..Len(Last(state.elements).children) :
       Last(state.elements).children[k].id \in ElementIds(Last(state.history))

C23_RoundTripStep ==
  (UngroupStep /\ JustGrouped) =>
    LeavesRestored(Last(state.history),
                   Map(Last(state.elements).children, LAMBDA child : child.id),
                   state'.elements)

IndexOf(tree, id) == CHOOSE i \in 1..Len(tree) : tree[i].id = id

\* the produced elements of `after` lie where `group` was: what was below the
\* group is below each of them and what was above the group is above
InPlaceOfGroup(before, group, after) ==
  LET at == IndexOf(before.elements, group.id)
      fresh == { i \in 1..Len(after.elements) :
                   after.elements[i].id \notin ElementIds(before.elements) }
  IN \A k \in 1..Len(before.elements) :
       k # at =>
         /\ before.elements[k].id \in ElementIds(after.elements)
         /\ \A i \in fresh :
              IF k < at THEN IndexOf(after.elements, before.elements[k].id) < i
                        ELSE IndexOf(after.elements, before.elements[k].id) > i

\* C24: ungroupElements puts the produced elements in the place of the group
\* in the top-level order: the elements above the group stay above every
\* produced element and the elements below stay below
C24_ProducedInPlaceOfGroup ==
  [][UngroupStep => InPlaceOfGroup(state, FindSelectedGroup(state)[1], state')]_vars

\* what the code keeps: the other elements stay in their order, below every
\* produced element
C24_ProducedOnTop ==
  [][UngroupStep =>
       LET group == FindSelectedGroup(state)[1]
           others == SelectSeq(state.elements, LAMBDA el : el.id # group.id)
       IN /\ SubSeq(state'.elements, 1, Len(others)) = others
          /\ \A i \in (Len(others) + 1)..Len(state'.elements) :
               state'.elements[i].id \notin ElementIds(state.elements)]_vars

\* the modifiers of the last pointer event: shift, meta or ctrl is held
ModifierHeld == modifierKeysRef.shiftKey \/ modifierKeysRef.metaKey \/ modifierKeysRef.ctrlKey

\* a marquee gesture is in progress
MarqueeSelecting ==
  isSelectedRef /\ selectionBoxRef /\ selectionStartRef # Null /\ selectionLastPosRef # Null

\* the step is a press on the empty canvas
BackgroundPress ==
  \E ptr \in MousePointers, localPos \in MarqueeStarts : backgroundPointerDown(ptr, localPos)

\* C25 as stated: a press on the empty canvas in select mode begins a marquee
\* only if no additive modifier is held
C25_MarqueeOnlyWithoutModifier ==
  [][(BackgroundPress /\ state.interactionMode = "select")
       => (MarqueeSelecting' <=> ~ModifierHeld)]_vars

\* C25, amended: a press on the empty canvas in select mode begins a marquee
\* whether or not a modifier is held, with a zero-size rectangle at the press
C25_MarqueeWhateverModifier ==
  [][(BackgroundPress /\ state.interactionMode = "select")
       => /\ MarqueeSelecting'
          /\ selectionStartRef' \in MarqueeStarts
          /\ selectionLastPosRef' = selectionStartRef'
          /\ state'.selectedIds = state.selectedIds]_vars

\* the empty canvas is pressed with shift held and elements selected: the
\* marquee is there, zero-size, and the selection is as it was
C25_Witness ==
  /\ pressed # {}
  /\ ModifierHeld
  /\ MarqueeSelecting
  /\ selectionLastPosRef = selectionStartRef
  /\ state.selectedIds # << >>

\* the step is the release that completes a marquee
MarqueeRelease ==
  /\ MarqueeSelecting
  /\ \E ptr \in MousePointers : stopInteractions(ptr)

\* the ids of a list of ids or of a list of elements, as a set
IdSet(ids) == { ids[i] : i \in 1..Len(ids) }

HitSet == ElementIds(MarqueeHits(state.elements, selectionStartRef, selectionLastPosRef))

\* C26: on marquee completion the hit set replaces the selection when no
\* modifier is held and is added to it when one is held; with a modifier the
\* new selection contains the previous one, also when nothing is hit
C26_ReplaceOrUnion ==
  [][MarqueeRelease =>
       IF ModifierHeld
       THEN /\ IdSet(state'.selectedIds) = IdSet(state.selectedIds) \cup HitSet
            /\ IdSet(state.selectedIds) \subseteq IdSet(state'.selectedIds)
       ELSE IdSet(state'.selectedIds) = HitSet]_vars

\* what the release does: the same, except that an empty hit set clears the
\* selection whether or not a modifier is held
C26_ReplaceOrUnionOfHits ==
  [][MarqueeRelease =>
       IF ModifierHeld /\ HitSet # {}
       THEN IdSet(state'.selectedIds) = IdSet(state.selectedIds) \cup HitSet
       ELSE IdSet(state'.selectedIds) = HitSet]_vars

\* the rectangle swept between two corners, whichever way it was swept
Swept(a, b) ==
  [ left   |-> IF a.x <= b.x THEN a.x ELSE b.x,
    right  |-> IF a.x <= b.x THEN b.x ELSE a.x,
    top    |-> IF a.y <= b.y THEN a.y ELSE b.y,
    bottom |-> IF a.y <= b.y THEN b.y ELSE a.y ]

\* the stored rectangle of el and the rectangle r have a point in common
Intersects(el, r) ==
  /\ \E x \in { el.x, r.left } : el.x <= x /\ x <= el.x + el.width /\ r.left <= x /\ x <= r.right
  /\ \E y \in { el.y, r.top } : el.y <= y /\ y <= el.y + el.height /\ r.top <= y /\ y <= r.bottom

Intersecting(r) ==
  { state.elements[i].id : i \in { j \in 1..Len(state.elements) : Intersects(state.elements[j], r) } }

\* while a marquee is swept its hit set is the elements whose rectangle
\* intersects it, the same from whichever corner it is swept
C27_HitsOfSweep ==
  MarqueeSelecting =>
    LET r == Swept(selectionStartRef, selectionLastPosRef)
        corners == { [x |-> x, y |-> y] : x \in { r.left, r.right }, y \in { r.top, r.bottom } }
    IN \A a \in corners :
         LET b == [x |-> r.left + r.right - a.x, y |-> r.top + r.bottom - a.y]
         IN /\ ElementIds(MarqueeHits(state.elements, a, b)) = Intersecting(r)
            /\ (r = [left |-> 0, right |-> 50, top |-> 0, bottom |-> 50]) =>
                 /\ ElementIds(MarqueeHits(MarqueeDocument, a, b)) = { 1 }
                 /\ MarqueeDocument[1] = Square(1, 40, 40, 100, 100)
                 /\ MarqueeDocument[2] = Square(2, 60, 60, 10, 10)

C27_HitsSelected ==
  (MarqueeRelease /\ ~ModifierHeld) =>
    IdSet(state'.selectedIds) = Intersecting(Swept(selectionStartRef, selectionLastPosRef))

\* C27: an element is hit iff its stored unrotated rectangle intersects the
\* normalized marquee; the marquee (0,0,50,50) hits the element at
\* (40,40,100,100) and not the one at (60,60,10,10), whichever way it is swept
C27_HitIffIntersects == []C27_HitsOfSweep /\ [][C27_HitsSelected]_vars

\* the marquee (0,0,50,50) is swept from its top-right corner to its
\* bottom-left one and hits the first element alone
C27_Witness ==
  /\ MarqueeSelecting
  /\ selectionStartRef = [x |-> 50, y |-> 0]
  /\ selectionLastPosRef = [x |-> 0, y |-> 50]
  /\ HitSet = { 1 }

\* the press of the mouse on the element id, with or without a modifier
ElementPress(id, additive) ==
  \E ptr \in MousePointers : handleElementPointerDown(ptr, id, additive)

\* the release that ends a drag pressed on an element
DragRelease == Dragging /\ \E ptr \in MousePointers : stopInteractions(ptr)

\* the text element id is the whole selection
SoleSelectedText(id) ==
  /\ state.selectedIds = << id >>
  /\ ElementById(state.elements, id).type = "text"

\* a press outside text editing arms the drag iff it lands without a modifier
\* on a text element that is already the sole selection
C28_PressArms ==
  \A id \in ElementIds(state.elements), additive \in BOOLEAN :
    (ElementPress(id, additive) /\ state.interactionMode = "select"
       /\ state.editingTextId = NoId) =>
      /\ dragRef' # Null
      /\ dragRef'.shouldEnterEditOnRelease <=> (SoleSelectedText(id) /\ ~additive)
      /\ dragRef'.shouldEnterEditOnRelease => dragRef'.ids = << id >>
      /\ ~dragRef'.moved
      /\ state'.editingTextId = NoId

\* the release enters text editing on the pressed element iff the drag was
\* armed and has not moved; editingTextId stays null otherwise
C28_ReleaseEnters ==
  DragRelease =>
    /\ state.editingTextId = NoId
    /\ state'.editingTextId =
         IF dragRef.shouldEnterEditOnRelease /\ ~dragRef.moved THEN dragRef.ids[1] ELSE NoId

\* between the press and the release only a pointer-move that moves the
\* dragged elements marks the drag as moved, and the arming is kept
C28_MoveMarks ==
  (Dragging /\ dragRef' # Null) =>
    /\ dragRef'.shouldEnterEditOnRelease = dragRef.shouldEnterEditOnRelease
    /\ dragRef'.ids = dragRef.ids
    /\ dragRef'.moved <=> (dragRef.moved \/ state'.elements # state.elements)

\* C28: a press without modifier on a text element that is already the sole
\* selection, released without drag movement, sets editingTextId to that
\* element; when the drag moved, the element was not the sole selection or a
\* modifier was held, editingTextId stays null
C28_TextEditEntry == [][C28_PressArms /\ C28_MoveMarks /\ C28_ReleaseEnters]_vars

\* the second click on the selected text has been released and the text is edited
C28_Witness ==
  /\ state.editingTextId = 2
  /\ state.selectedIds = << 2 >>
  /\ pressed = {}
  /\ dragRef = Null

\* the press of the mouse on the empty canvas
CanvasPress == \E ptr \in MousePointers, localPos \in BackgroundPoints :
                 backgroundPointerDown(ptr, localPos)

\* while a text is edited, a press on another element leaves edit mode,
\* selects by the rules of the press and starts the drag of that selection
C29_ElementPressExits ==
  \A id \in ElementIds(state.elements) \ { state.editingTextId }, additive \in BOOLEAN :
    (state.editingTextId # NoId /\ ElementPress(id, additive)) =>
      /\ state'.editingTextId = NoId
      /\ IdSet(state'.selectedIds) =
           IF additive THEN IdSet(state.selectedIds) \cup { id } ELSE { id }
      /\ dragRef' # Null
      /\ dragRef'.ids = state'.selectedIds
      /\ ~dragRef'.shouldEnterEditOnRelease

\* while a text is edited, a press on the empty canvas leaves edit mode,
\* starts the marquee and leaves the selection to the release
C29_CanvasPressExits ==
  (state.editingTextId # NoId /\ CanvasPress) =>
    /\ state'.editingTextId = NoId
    /\ state'.selectedIds = state.selectedIds
    /\ isSelectedRef' /\ selectionBoxRef' /\ selectionStartRef' \in BackgroundPoints

\* C29: while editingTextId is set, a press on a different element or on the
\* empty canvas exits text-edit mode and performs the new selection or starts
\* the new gesture: afterwards editingTextId is null and the selection is the
\* one that press produces
C29_PressExitsTextEdit == [][C29_ElementPressExits /\ C29_CanvasPressExits]_vars

\* the text is edited and the mouse is up: a press on the shape and a press on
\* the empty canvas can both arrive
C29_Witness ==
  /\ state.editingTextId = 2
  /\ state.selectedIds = << 2 >>
  /\ pressed = {}
  /\ ENABLED ElementPress(1, TRUE)
  /\ ENABLED CanvasPress

\* the step is a copy of a non-empty selection
CopyStep == copy /\ state.selectedIds # <<>>

\* the step is a paste of a non-empty clipboard
PasteStepTaken == paste /\ clipboardRef # <<>>

\* copies is the clipboard moved by offset on both axes under ids that no
\* element of els carries and that differ from each other
CopiesAt(copies, clipboard, offset, els) ==
  /\ Len(copies) = Len(clipboard)
  /\ \A i \in 1..Len(copies) :
       /\ copies[i].x = clipboard[i].x + offset
       /\ copies[i].y = clipboard[i].y + offset
       /\ copies[i] = [clipboard[i] EXCEPT !.id = copies[i].id, !.x = copies[i].x,
                                           !.y = copies[i].y]
       /\ copies[i].id \notin ElementIds(els)
       /\ \A j \in 1..Len(copies) : copies[j].id = copies[i].id => j = i

\* a copy keeps the selected elements and restarts the counter
C30_CopyResets ==
  CopyStep =>
    /\ pasteCountRef' = 1
    /\ clipboardRef' = Filter(state.elements, LAMBDA el : IsSelected(state, el))
    /\ state' = state

\* the paste that finds the counter at k appends the clipboard at 20 * k and selects it
C30_PasteAtCount ==
  PasteStepTaken =>
    LET n == Len(state.elements)
        copies == SubSeq(state'.elements, n + 1, Len(state'.elements))
    IN /\ SubSeq(state'.elements, 1, n) = state.elements
       /\ CopiesAt(copies, clipboardRef, 20 * pasteCountRef, state.elements)
       /\ state'.selectedIds = Map(copies, LAMBDA el : el.id)
       /\ pasteCountRef' = pasteCountRef + 1
       /\ clipboardRef' = clipboardRef

\* the counter is the number of the next paste since the last copy
C30_CounterCounts ==
  pasteCountRef' # pasteCountRef =>
    \/ CopyStep /\ pasteCountRef' = 1
    \/ PasteStepTaken /\ pasteCountRef' = pasteCountRef + 1

\* the elements that three pastes in a row append to the store s
ThreePastes(s, clipboard, pasteCount, next) ==
  LET first == PasteInto(s, clipboard, pasteCount, next)
      second == PasteInto(first.store, clipboard, first.pasteCount, first.next)
      third == PasteInto(second.store, clipboard, second.pasteCount, second.next)
      n == Len(clipboard)
      m == Len(s.elements)
  IN [ k \in 1..3 |-> SubSeq(third.store.elements, m + (k - 1) * n + 1, m + k * n) ]

\* right after a copy three pastes in a row land at +20, +40 and +60 of the
\* clipboard: at (30,30), (50,50) and (70,70) for one element copied at (10,10)
C30_ThreeInARow ==
  clipboardRef # <<>> =>
    LET pastes == ThreePastes(state, clipboardRef, 1, nextId)
        third == PasteInto(PasteInto(PasteInto(state, clipboardRef, 1, nextId).store,
                                     clipboardRef, 2, nextId + Len(clipboardRef)).store,
                           clipboardRef, 3, nextId + 2 * Len(clipboardRef))
    IN /\ \A k \in 1..3 :
            CopiesAt(pastes[k], clipboardRef, 20 * k,
                     state.elements \o (IF k > 1 THEN pastes[1] ELSE <<>>)
                                    \o (IF k > 2 THEN pastes[2] ELSE <<>>))
       /\ third.store.selectedIds = Map(pastes[3], LAMBDA el : el.id)
       /\ (Len(clipboardRef) = 1 /\ clipboardRef[1].x = 10 /\ clipboardRef[1].y = 10) =>
            /\ << pastes[1][1].x, pastes[1][1].y >> = << 30, 30 >>
            /\ << pastes[2][1].x, pastes[2][1].y >> = << 50, 50 >>
            /\ << pastes[3][1].x, pastes[3][1].y >> = << 70, 70 >>

\* C30: after a copy of a non-empty selection the k-th successive paste
\* inserts copies at the clipboard position + 20 * k on both axes under fresh
\* top-level ids and selects them; a new copy resets the counter
C30_PasteOffsets ==
  /\ []C30_ThreeInARow
  /\ [][C30_CopyResets /\ C30_PasteAtCount /\ C30_CounterCounts]_vars

\* the third paste of the shape copied at (10,10) has landed at (70,70) and is selected
C30_Witness ==
  /\ pasteCountRef = 4
  /\ Len(clipboardRef) = 1
  /\ clipboardRef[1].x = 10 /\ clipboardRef[1].y = 10
  /\ \E i \in 1..Len(state.elements) :
       /\ state.elements[i].x = 70 /\ state.elements[i].y = 70
       /\ state.selectedIds = << state.elements[i].id >>

\* C31: from the default state, whatever setZoom is called with by the wheel,
\* the top bar and the artboard fit routine, state.zoom stays within [0.25, 3]
C31_ZoomWithinLimits ==
  /\ 4 * state.zoom >= ZoomUnit
  /\ state.zoom <= 3 * ZoomUnit

\* the fit routine has met the lower limit for an artboard wider than the
\* viewport can show at a quarter
C31_Witness ==
  /\ 4 * state.zoom = ZoomUnit
  /\ state.artboard.width = 4000
  /\ viewport.fitTimeout # Null

\* the centre of the artboard is the centre of the virtual canvas
Centered(a) == 2 * a.x + a.width = 4000 /\ 2 * a.y + a.height = 4000

\* a step changes the width or the height of the artboard
ArtboardResized ==
  \/ state'.artboard.width # state.artboard.width
  \/ state'.artboard.height # state.artboard.height

\* C32: starting from a centred artboard, every updateArtboard and
\* updateArtboardWithFit call that changes the width or the height leaves the
\* artboard centred at (2000, 2000)
C32_ArtboardStaysCentered ==
  /\ []Centered(state.artboard)
  /\ [][ArtboardResized => Centered(state'.artboard)]_vars

\* both sizes of the artboard have been changed
C32_Witness ==
  /\ state.artboard.width = 4000
  /\ state.artboard.height = 100
  /\ state.artboard.x = 0
  /\ state.artboard.y = 1950

\* the positions of `after` that hold, and that do not hold, an id of ids
Among(after, ids) == { i \in 1..Len(after) : after[i].id \in ids }
Outside(after, ids) == { i \in 1..Len(after) : after[i].id \notin ids }

\* `after` holds the elements of `before`, unchanged, and any two of them that
\* are both in ids, or both outside, in the order they had in `before`
Reordered(before, after, ids) ==
  /\ Len(after) = Len(before)
  /\ \A i \in 1..Len(after) : \E k \in 1..Len(before) : after[i] = before[k]
  /\ \A k \in 1..Len(before) : \E i \in 1..Len(after) : after[i] = before[k]
  /\ \A i, j \in 1..Len(after) :
       (i < j /\ (after[i].id \in ids <=> after[j].id \in ids)) =>
         IndexOf(before, after[i].id) < IndexOf(before, after[j].id)

\* bringToFront with a selection: the selected elements become the suffix
C33_Front ==
  (bringToFront /\ state.selectedIds # <<>>) =>
    LET ids == IdSet(state.selectedIds) IN
    /\ Reordered(state.elements, state'.elements, ids)
    /\ \A i \in Outside(state'.elements, ids), j \in Among(state'.elements, ids) : i < j
    /\ state'.history = Append(state.history, state.elements)

\* sendToBack with a selection: the selected elements become the prefix
C33_Back ==
  (sendToBack /\ state.selectedIds # <<>>) =>
    LET ids == IdSet(state.selectedIds) IN
    /\ Reordered(state.elements, state'.elements, ids)
    /\ \A i \in Among(state'.elements, ids), j \in Outside(state'.elements, ids) : i < j
    /\ state'.history = Append(state.history, state.elements)

\* without a selection neither command can change anything
C33_NothingToMove ==
  state.selectedIds = <<>> =>
    /\ ~ENABLED (bringToFront /\ vars' # vars)
    /\ ~ENABLED (sendToBack /\ vars' # vars)

\* C33: bringToFront and sendToBack with a non-empty selection permute the
\* top-level list so that the selected elements form the suffix and the prefix,
\* keep the relative order inside the selected and inside the unselected
\* elements and change no element; with an empty selection they change nothing
\* and record no history entry
C33_Reorder == []C33_NothingToMove /\ [][C33_Front /\ C33_Back]_vars

\* the first and the third layer, selected in the order 3, 1, have been brought to the front
C33_Witness ==
  /\ state.selectedIds = << 3, 1 >>
  /\ Map(state.elements, LAMBDA el : el.id) = << 2, 1, 3 >>
  /\ state.history = << TrioDocument >>

\* the extent of the four corners of el turned about its centre, for a
\* rotation by right angles: a quarter turn swaps the width and the height
RotatedExtent(el) ==
  IF (el.rotation \div 90) % 2 = 0
  THEN [ minX |-> el.x, maxX |-> el.x + el.width, minY |-> el.y, maxY |-> el.y + el.height ]
  ELSE [ minX |-> (2 * el.x + el.width - el.height) \div 2,
         maxX |-> (2 * el.x + el.width + el.height) \div 2,
         minY |-> (2 * el.y + el.height - el.width) \div 2,
         maxY |-> (2 * el.y + el.height + el.width) \div 2 ]

\* the box around the rotated corners of every element of a non-empty list
CornersBox(els) ==
  LET minX == FoldMin(els, LAMBDA el : RotatedExtent(el).minX, Infinity)
      minY == FoldMin(els, LAMBDA el : RotatedExtent(el).minY, Infinity)
      maxX == FoldMax(els, LAMBDA el : RotatedExtent(el).maxX, -Infinity)
      maxY == FoldMax(els, LAMBDA el : RotatedExtent(el).maxY, -Infinity)
  IN [x |-> minX, y |-> minY, width |-> maxX - minX, height |-> maxY - minY]

\* the stored rectangles of a list, with no rotation looked at
UnionBox(els) ==
  LET left == CHOOSE v \in { els[i].x : i \in 1..Len(els) } :
                \A i \in 1..Len(els) : v <= els[i].x
      top == CHOOSE v \in { els[i].y : i \in 1..Len(els) } :
               \A i \in 1..Len(els) : v <= els[i].y
      right == CHOOSE v \in { els[i].x + els[i].width : i \in 1..Len(els) } :
                 \A i \in 1..Len(els) : v >= els[i].x + els[i].width
      bottom == CHOOSE v \in { els[i].y + els[i].height : i \in 1..Len(els) } :
                  \A i \in 1..Len(els) : v >= els[i].y + els[i].height
  IN [x |-> left, y |-> top, width |-> right - left, height |-> bottom - top]

\* every element of the list is turned by a multiple of a right angle
RightAngled(els) == \A i \in 1..Len(els) : els[i].rotation % 90 = 0

C34_BoxOfStoredRectangles ==
  /\ getBoundingBox(<<>>) = Null
  /\ resizeRef # Null =>
       /\ resizeRef.startBounds = UnionBox(resizeRef.startElements)
       /\ getBoundingBox(resizeRef.startElements) = UnionBox(resizeRef.startElements)

\* no scroll event is queued and the render has caught up with the store
ScrollSettled == ~viewport.scrollPending /\ Rendered

\* C35: the scroll offset is the single source of truth for the pan: once the
\* initial scroll position has been set and every pending scroll event has
\* been handled, state.pan is the (scrollLeft, scrollTop) of the viewport,
\* however the scroll events interleave with the renders
C35_PanIsScrollOffset ==
  (viewport.initialScrollSet /\ ScrollSettled) => state.pan = viewport.scroll

\* what the code keeps: a scroll event handled by a handler of the last render
\* brings state.pan to the scroll offset
C35_FreshHandlerSyncs ==
  [][(handleScroll /\ viewport.initialScrollSet /\ viewport.handlerPan = state.pan) =>
       state'.pan = viewport.scroll]_vars

\* C36 (helper): with the mouse alone, as long as nothing is stored in history
\* and redoStack the tree outside a gesture is the document of the start, so
\* that document is the only tree that was current outside any gesture
C36_OnlyStartTreeOutside ==
  (state.history = <<>> /\ state.redoStack = <<>> /\ BetweenGestures) =>
     state.elements = SoloGroupDocument

StoresOnly(tree) ==
  /\ \A i \in 1..Len(state'.history) : state'.history[i] = tree
  /\ \A i \in 1..Len(state'.redoStack) : state'.redoStack[i] = tree

\* C36: no intermediate gesture tree enters history or redoStack: whatever
\* happens between the pointer-down and the pointer-up of the first gesture
\* of a session (an image load resolving into addImage, a keyboard group or
\* ungroup), every snapshot it stores in history or redoStack is the tree that
\* was current outside any gesture, which by then is the document of the start
C36_NoIntermediateSnapshot ==
  [][(state.history = <<>> /\ state.redoStack = <<>> /\ ~BetweenGestures) =>
       StoresOnly(SoloGroupDocument)]_vars

\* the ids of a forest, nested children at any depth included, one per element
RECURSIVE TreeIds(_)
TreeIds(els) ==
  IF els = <<>> THEN <<>>
  ELSE << Head(els).id >> \o TreeIds(Head(els).children) \o TreeIds(Tail(els))

NoSharedId(els) == Len(ArrayFromSet(TreeIds(els))) = Len(TreeIds(els))

\* C37: element ids are unique across the whole element tree in every
\* reachable state: no two elements, top-level or nested at any depth, share
\* an id after any sequence of copy, paste, delete, undo and redo
C37_IdsUnique == NoSharedId(state.elements)

\* every selected id of the store is the id of one of its top-level elements
SelectionNamesElements(s) ==
  \A i \in 1..Len(s.selectedIds) : s.selectedIds[i] \in ElementIds(s.elements)

\* the stores of a session that starts from the default state: two shapes are
\* added and grouped, a third shape is added, the group and the shape are
\* selected and grouped, and the outer group is ungrouped
SessionStores ==
  LET rectangle(id) == NewElement(id, "shape", "rectangle", 220, 140)
      s0 == getInitialState(<<>>)
      s1 == AddedTo(s0, rectangle(1))
      s2 == AddedTo(s1, rectangle(2))
      s3 == GroupSelected(SetSelection(s2, << 1, 2 >>, FALSE), 3)
      s4 == AddedTo(s3, rectangle(4))
      s5 == GroupSelected(SetSelection(s4, << 3, 4 >>, FALSE), 5)
      s6 == UngroupSelected(s5, FindSelectedGroup(s5)[1], 5).store
  IN << s0, s1, s2, s3, s4, s5, s6 >>

\* C38: every id in selectedIds is the id of a current top-level element, in
\* the current state and in every state of the session from the default state
C38_SelectionIsCurrent ==
  /\ \A k \in 1..Len(SessionStores) : SelectionNamesElements(SessionStores[k])
  /\ SelectionNamesElements(state)

\* the same up to the second group of the session
C38_CurrentUntilUngroup ==
  \A k \in 1..(Len(SessionStores) - 1) : SelectionNamesElements(SessionStores[k])

\* the edited text is selected, or no text is edited
EditedIsSelected(s) == s.editingTextId = NoId \/ Includes(s.selectedIds, s.editingTextId)

\* the step takes the edited text out of the selection
DeselectsEdited ==
  /\ state.editingTextId # NoId
  /\ ~Includes(state'.selectedIds, state.editingTextId)

C39_EditedIsSelected == EditedIsSelected(state)

C39_DeselectingExits == [][DeselectsEdited => state'.editingTextId = NoId]_vars

\* C39: text-edit mode implies selection: once the selection-sync effect has
\* run, editingTextId is null or an id of selectedIds, and a step that takes
\* the edited text out of the selection leaves editingTextId = null
C39_EditImpliesSelection == []C39_EditedIsSelected /\ C39_DeselectingExits

\* a text is being edited and is selected while an image load is about to
\* resolve, which selects the image alone
C39_Witness ==
  /\ state.editingTextId # NoId
  /\ Includes(state.selectedIds, state.editingTextId)
  /\ ENABLED (\E size \in ImageSizes : addImage(size))

\* the box calculateResizeSnap returns for newBounds in the gesture in progress
SnappedBounds(newBounds, direction) ==
  calculateResizeSnap(ResizingElements, state.elements, newBounds, direction,
                      (SnapThresholdPixels * ZoomUnit) \div state.zoom).snappedBounds

\* C40: calculateResizeSnap never produces an inverted box: for every
\* direction and every input box with width >= 0 and height >= 0, the snapped
\* box has width >= 0 and height >= 0
C40_SnapNeverInverts ==
  Resizing =>
    \A direction \in AllDirections :
      \A newBounds \in SnapInputBounds(direction) :
        (newBounds.width >= 0 /\ newBounds.height >= 0) =>
          LET snapped == SnappedBounds(newBounds, direction)
          IN snapped.width >= 0 /\ snapped.height >= 0

\* the same for the boxes whose sides are longer than the snap threshold
C40_WideBoxesNeverInvert ==
  Resizing =>
    \A direction \in AllDirections :
      \A newBounds \in SnapInputBounds(direction) :
        LET threshold == (SnapThresholdPixels * ZoomUnit) \div state.zoom
            snapped == SnappedBounds(newBounds, direction)
        IN (newBounds.width > threshold /\ newBounds.height > threshold) =>
             (snapped.width >= 0 /\ snapped.height >= 0)

====
